---- MODULE Spec2Model ----
(***************************************************************************)
(* Model of the PR lifecycle core of auto-pr: the lifecycle state machine  *)
(* (pr_state_machine.py), the facts it is derived from                     *)
(* (platforms/models.py), the check monitor (check_monitor.py) and the     *)
(* merge workflow (main.py).                                               *)
(***************************************************************************)
EXTENDS Integers, Sequences, FiniteSets, TLC

None == "None"

(***************************************************************************)
(* Bounds of the model.                                                    *)
(***************************************************************************)
MaxHistory == 2
MaxChecks == 2
MaxReviews == 2
MaxTimeout == 60
MaxOvershoot == 1
MaxRecursion == 2
\* Calls of one pure method on the same input.
MaxCalls == 2
\* Longest sequence of transition calls made on one machine.
MaxPath == 6
\* Largest required_approvals a caller passes.
MaxRequired == 3

\* All sequences over S of length at most n.
SeqUpTo(S, n) == UNION {[1..k -> S] : k \in 0..n}

(***************************************************************************)
(* pr_state_machine.py: PRLifecycleState, VALID_TRANSITIONS                *)
(***************************************************************************)
PRLifecycleState ==
    {"CREATED", "OPEN", "DRAFT", "CHECKS_RUNNING", "CHECKS_PASSED",
     "CHECKS_FAILED", "CONFLICT", "RESOLUTION", "BLOCKED", "REVIEW_REQUIRED",
     "CHANGES_REQUESTED", "READY_TO_MERGE", "MERGED", "CLOSED"}

StateTransition(f, t, g) == [from_state |-> f, to_state |-> t, trigger |-> g]

VALID_TRANSITIONS ==
    << StateTransition("CREATED", "OPEN", "publish"),
       StateTransition("CREATED", "DRAFT", "create_draft"),
       StateTransition("DRAFT", "OPEN", "ready_for_review"),
       StateTransition("OPEN", "DRAFT", "convert_to_draft"),
       StateTransition("OPEN", "CHECKS_RUNNING", "checks_started"),
       StateTransition("OPEN", "REVIEW_REQUIRED", "awaiting_review"),
       StateTransition("CHECKS_RUNNING", "CHECKS_PASSED", "checks_pass"),
       StateTransition("CHECKS_RUNNING", "CHECKS_FAILED", "checks_fail"),
       StateTransition("CHECKS_RUNNING", "CONFLICT", "conflict_detected"),
       StateTransition("CHECKS_PASSED", "READY_TO_MERGE", "approved"),
       StateTransition("CHECKS_PASSED", "REVIEW_REQUIRED", "awaiting_review"),
       StateTransition("CHECKS_PASSED", "CHANGES_REQUESTED", "changes_requested"),
       StateTransition("CHECKS_FAILED", "BLOCKED", "blocked"),
       StateTransition("CHECKS_FAILED", "CHECKS_RUNNING", "retry"),
       StateTransition("CONFLICT", "RESOLUTION", "start_resolution"),
       StateTransition("RESOLUTION", "CHECKS_RUNNING", "resolution_complete"),
       StateTransition("RESOLUTION", "CONFLICT", "resolution_failed"),
       StateTransition("REVIEW_REQUIRED", "READY_TO_MERGE", "approved"),
       StateTransition("REVIEW_REQUIRED", "CHANGES_REQUESTED", "changes_requested"),
       StateTransition("CHANGES_REQUESTED", "REVIEW_REQUIRED", "addressed"),
       StateTransition("CHANGES_REQUESTED", "CHECKS_RUNNING", "pushed"),
       StateTransition("BLOCKED", "CHECKS_RUNNING", "unblocked"),
       StateTransition("READY_TO_MERGE", "MERGED", "merge"),
       StateTransition("READY_TO_MERGE", "CONFLICT", "conflict"),
       StateTransition("READY_TO_MERGE", "BLOCKED", "blocked"),
       StateTransition("OPEN", "CLOSED", "close"),
       StateTransition("DRAFT", "CLOSED", "close"),
       StateTransition("BLOCKED", "CLOSED", "close") >>

\* The trigger tokens a caller may pass: every tabled trigger, the synthetic
\* history token of set_state, and one token that is in no table entry.
Triggers ==
    {VALID_TRANSITIONS[i].trigger : i \in DOMAIN VALID_TRANSITIONS}
        \cup {"direct_set", "bogus"}

Min(S) == CHOOSE x \in S : \A y \in S : x <= y

\* Matching with the comparison of from_state left out.
Matching_any_state(s, g) ==
    {i \in DOMAIN VALID_TRANSITIONS : VALID_TRANSITIONS[i].trigger = g}

\* Indices of the table entries a lookup (state s, trigger g) matches.
Matching(s, g) ==
    {i \in DOMAIN VALID_TRANSITIONS :
        VALID_TRANSITIONS[i].from_state = s /\ VALID_TRANSITIONS[i].trigger = g}

can_transition(s, g) ==
    \E i \in DOMAIN VALID_TRANSITIONS :
        VALID_TRANSITIONS[i].from_state = s /\ VALID_TRANSITIONS[i].trigger = g

RECURSIVE TriggersFrom(_, _)
TriggersFrom(s, i) ==
    IF i > Len(VALID_TRANSITIONS) THEN << >>
    ELSE IF VALID_TRANSITIONS[i].from_state = s
         THEN << VALID_TRANSITIONS[i].trigger >> \o TriggersFrom(s, i + 1)
         ELSE TriggersFrom(s, i + 1)

get_valid_triggers(s) == TriggersFrom(s, 1)

is_terminal(s) == s \in {"MERGED", "CLOSED"}

sm_can_merge(s) == s = "READY_TO_MERGE"

needs_attention(s) ==
    s \in {"CONFLICT", "CHECKS_FAILED", "BLOCKED", "CHANGES_REQUESTED"}

(***************************************************************************)
(* platforms/models.py: CheckInfo, ReviewInfo, PRInfo                      *)
(***************************************************************************)
PRState == {"open", "closed", "merged", "draft"}

CheckStatus == {"queued", "in_progress", "completed"}

CheckConclusion ==
    {"success", "failure", "neutral", "cancelled", "skipped", "timed_out",
     "action_required", "pending"}

ReviewState == {"APPROVED", "CHANGES_REQUESTED", "COMMENTED", "PENDING", "DISMISSED"}

MergeableState ==
    {"mergeable", "conflicting", "unknown", "blocked", "behind", "unstable",
     "clean", "dirty", "has_hooks"}

CheckInfo(n, s, c) == [name |-> n, status |-> s, conclusion |-> c]

ReviewInfo(u, s) == [user |-> u, state |-> s]

check_is_pending(c) == c.status # "completed"

is_successful(c) == c.conclusion = "success"

is_failed(c) == c.conclusion \in {"failure", "timed_out", "cancelled"}

review_is_approved(r) == r.state = "APPROVED"

requests_changes(r) == r.state = "CHANGES_REQUESTED"

is_open(p) == p.state = "open"

is_merged(p) == p.state = "merged"

is_draft(p) == p.draft \/ p.state = "draft"

has_conflicts(p) == p.mergeable_state \in {"conflicting", "dirty"}

checks_passed(p) ==
    IF p.checks = << >> THEN TRUE
    ELSE \A i \in DOMAIN p.checks :
            p.checks[i].status = "completed" => is_successful(p.checks[i])

checks_pending(p) == \E i \in DOMAIN p.checks : check_is_pending(p.checks[i])

checks_failed(p) == \E i \in DOMAIN p.checks : is_failed(p.checks[i])

pr_is_approved(p) ==
    IF p.reviews = << >> THEN FALSE
    ELSE LET approved == SelectSeq(p.reviews, review_is_approved)
             changes_requested == SelectSeq(p.reviews, requests_changes)
         IN  Len(approved) > 0 /\ Len(changes_requested) = 0

pr_can_merge(p) ==
    /\ is_open(p)
    /\ ~is_draft(p)
    /\ p.mergeable # "False"
    /\ ~has_conflicts(p)
    /\ checks_passed(p)
    /\ ~checks_pending(p)

\* PRInfo.get_blocking_reasons: the reasons in the order they are appended,
\* each reason represented by its kind.
get_blocking_reasons(p) ==
    LET r1 == IF ~is_open(p) THEN << "not_open" >> ELSE << >>
        r2 == IF is_draft(p) THEN r1 \o << "draft" >> ELSE r1
        r3 == IF has_conflicts(p) THEN r2 \o << "conflicts" >> ELSE r2
        r4 == IF checks_pending(p) THEN r3 \o << "checks_pending" >> ELSE r3
        r5 == IF checks_failed(p) THEN r4 \o << "checks_failed" >> ELSE r4
        changes_requested == SelectSeq(p.reviews, requests_changes)
    IN  IF changes_requested # << >> THEN r5 \o << "changes_requested" >> ELSE r5

(***************************************************************************)
(* check_monitor.py: CheckSummary, CheckMonitor                            *)
(***************************************************************************)
summarize_checks(cs) ==
    LET skipped(c) == c.conclusion \in {"skipped", "neutral"} IN
    [ total |-> Len(cs),
      passed |-> Len(SelectSeq(cs, is_successful)),
      failed |-> Len(SelectSeq(cs, is_failed)),
      pending |-> Len(SelectSeq(cs, check_is_pending)),
      skipped |-> Len(SelectSeq(cs, skipped)) ]

\* all_passed that looks at the failed checks only.
all_passed_no_failures(summary) == summary.failed = 0

\* all_passed that needs at least one check.
all_passed_nonempty(summary) ==
    summary.total > 0 /\ summary.failed = 0 /\ summary.pending = 0

all_passed(summary) == summary.failed = 0 /\ summary.pending = 0

has_failures(summary) == summary.failed > 0

is_complete(summary) == summary.pending = 0

FLAKY_PATTERNS ==
    << << "e", "2", "e" >>,
       << "i", "n", "t", "e", "g", "r", "a", "t", "i", "o", "n" >>,
       << "v", "i", "s", "u", "a", "l" >>,
       << "f", "l", "a", "k", "y" >>,
       << "u", "n", "s", "t", "a", "b", "l", "e" >> >>

UpperCase ==
    << "A", "B", "C", "D", "E", "F", "G", "H", "I", "J", "K", "L", "M",
       "N", "O", "P", "Q", "R", "S", "T", "U", "V", "W", "X", "Y", "Z" >>

LowerCase ==
    << "a", "b", "c", "d", "e", "f", "g", "h", "i", "j", "k", "l", "m",
       "n", "o", "p", "q", "r", "s", "t", "u", "v", "w", "x", "y", "z" >>

\* str.lower() on a name given as a sequence of characters.
lower(name) ==
    [ i \in DOMAIN name |->
        IF \E k \in DOMAIN UpperCase : UpperCase[k] = name[i]
        THEN LowerCase[CHOOSE k \in DOMAIN UpperCase : UpperCase[k] = name[i]]
        ELSE name[i] ]

\* pattern in text, for sequences of characters.
contains(text, pattern) ==
    \E k \in 0..(Len(text) - Len(pattern)) :
        \A j \in DOMAIN pattern : text[k + j] = pattern[j]

\* is_flaky matching the patterns against the name as written.
is_flaky_case_sensitive(c) ==
    \E k \in DOMAIN FLAKY_PATTERNS : contains(c.name, FLAKY_PATTERNS[k])

is_flaky(c) ==
    LET name_lower == lower(c.name) IN
    \E k \in DOMAIN FLAKY_PATTERNS : contains(name_lower, FLAKY_PATTERNS[k])

\* CheckMonitor.categorize_failures: << flaky, blocking >>
categorize_failures(cs) ==
    LET failed == SelectSeq(cs, is_failed)
        flaky == SelectSeq(failed, is_flaky)
        not_in_flaky(c) == ~\E k \in DOMAIN flaky : flaky[k] = c
        blocking == SelectSeq(failed, not_in_flaky)
    IN  << flaky, blocking >>

\* handle_failed_checks retrying by itself when it cannot ask.
handle_failed_checks_auto_retry(cs, interactive) ==
    LET failed == SelectSeq(cs, is_failed)
        blocking == categorize_failures(cs)[2]
    IN  IF failed = << >>
        THEN [ask |-> FALSE, choices |-> {"continue"}, default |-> "continue"]
        ELSE IF ~interactive
        THEN [ask |-> FALSE, choices |-> {"retry"}, default |-> "retry"]
        ELSE IF blocking # << >>
        THEN [ask |-> TRUE, choices |-> {"abort", "retry", "wait"}, default |-> "abort"]
        ELSE [ask |-> TRUE, choices |-> {"retry", "ignore", "abort", "wait"},
              default |-> "retry"]

\* handle_failed_checks offering the same choices whatever the failures are.
handle_failed_checks_one_prompt(cs, interactive) ==
    IF SelectSeq(cs, is_failed) = << >>
    THEN [ask |-> FALSE, choices |-> {"continue"}, default |-> "continue"]
    ELSE IF ~interactive
    THEN [ask |-> FALSE, choices |-> {"abort"}, default |-> "abort"]
    ELSE [ask |-> TRUE, choices |-> {"retry", "ignore", "abort", "wait"},
          default |-> "retry"]

\* CheckMonitor.handle_failed_checks up to the prompt: the choices offered to
\* the user and the default, or the action returned without asking.
\* A record [ask, choices, default]: when ask is FALSE the only choice is the
\* returned action.
handle_failed_checks(cs, interactive) ==
    LET failed == SelectSeq(cs, is_failed)
        flaky == categorize_failures(cs)[1]
        blocking == categorize_failures(cs)[2]
    IN  IF failed = << >>
        THEN [ask |-> FALSE, choices |-> {"continue"}, default |-> "continue"]
        ELSE IF ~interactive
        THEN [ask |-> FALSE, choices |-> {"abort"}, default |-> "abort"]
        ELSE IF blocking # << >>
        THEN [ask |-> TRUE, choices |-> {"abort", "retry", "wait"}, default |-> "abort"]
        ELSE IF flaky # << >>
        THEN [ask |-> TRUE, choices |-> {"retry", "ignore", "abort", "wait"},
              default |-> "retry"]
        ELSE [ask |-> FALSE, choices |-> {"abort"}, default |-> "abort"]

\* [c.name for c in checks if c.is_pending]
pending_names(cs) ==
    LET sel == SelectSeq(cs, check_is_pending) IN [i \in DOMAIN sel |-> sel[i].name]

\* [c.name for c in checks if c.is_failed]
failed_names(cs) ==
    LET sel == SelectSeq(cs, is_failed) IN [i \in DOMAIN sel |-> sel[i].name]

(***************************************************************************)
(* platforms/github/cli_adapter.py and api_adapter.py: how a platform      *)
(* answer becomes the state field of a PRInfo.                             *)
(***************************************************************************)
parse_pr_state(state, draft_flag) ==
    IF state = "MERGED" THEN "merged"
    ELSE IF state = "CLOSED" THEN "closed"
    ELSE IF draft_flag THEN "draft"
    ELSE "open"

(***************************************************************************)
(* pr_state_machine.py: PRStateMachine.determine_state                     *)
(***************************************************************************)
\* determine_state without the failed-checks test.
determine_state_no_failed_step(p) ==
    IF is_merged(p) THEN "MERGED"
    ELSE IF ~is_open(p) THEN "CLOSED"
    ELSE IF is_draft(p) THEN "DRAFT"
    ELSE IF has_conflicts(p) THEN "CONFLICT"
    ELSE IF checks_pending(p) THEN "CHECKS_RUNNING"
    ELSE IF SelectSeq(p.reviews, requests_changes) # << >> THEN "CHANGES_REQUESTED"
    ELSE IF ~pr_is_approved(p) /\ p.reviews # << >> THEN "REVIEW_REQUIRED"
    ELSE IF get_blocking_reasons(p) # << >> THEN "BLOCKED"
    ELSE IF pr_can_merge(p) THEN "READY_TO_MERGE"
    ELSE IF checks_passed(p) THEN "CHECKS_PASSED"
    ELSE "OPEN"

\* determine_state with the pending-checks test moved before the conflict test.
determine_state_checks_first(p) ==
    IF is_merged(p) THEN "MERGED"
    ELSE IF ~is_open(p) THEN "CLOSED"
    ELSE IF is_draft(p) THEN "DRAFT"
    ELSE IF checks_pending(p) THEN "CHECKS_RUNNING"
    ELSE IF has_conflicts(p) THEN "CONFLICT"
    ELSE IF checks_failed(p) THEN "CHECKS_FAILED"
    ELSE IF SelectSeq(p.reviews, requests_changes) # << >> THEN "CHANGES_REQUESTED"
    ELSE IF ~pr_is_approved(p) /\ p.reviews # << >> THEN "REVIEW_REQUIRED"
    ELSE IF get_blocking_reasons(p) # << >> THEN "BLOCKED"
    ELSE IF pr_can_merge(p) THEN "READY_TO_MERGE"
    ELSE IF checks_passed(p) THEN "CHECKS_PASSED"
    ELSE "OPEN"

determine_state(p) ==
    IF is_merged(p) THEN "MERGED"
    ELSE IF ~is_open(p) THEN "CLOSED"
    ELSE IF is_draft(p) THEN "DRAFT"
    ELSE IF has_conflicts(p) THEN "CONFLICT"
    ELSE IF checks_pending(p) THEN "CHECKS_RUNNING"
    ELSE IF checks_failed(p) THEN "CHECKS_FAILED"
    ELSE IF SelectSeq(p.reviews, requests_changes) # << >> THEN "CHANGES_REQUESTED"
    ELSE IF ~pr_is_approved(p) /\ p.reviews # << >> THEN "REVIEW_REQUIRED"
    ELSE IF get_blocking_reasons(p) # << >> THEN "BLOCKED"
    ELSE IF pr_can_merge(p) THEN "READY_TO_MERGE"
    ELSE IF checks_passed(p) THEN "CHECKS_PASSED"
    ELSE "OPEN"


(***************************************************************************)
(* State of one PRStateMachine instance, and of the caller driving it.     *)
(***************************************************************************)
\* Representative checks a platform query may return: a passed one, a
\* blocking failure, a flaky failure, a running one and a skipped one.
name_build == << "b", "u", "i", "l", "d" >>
name_e2e == << "E", "2", "E", "-", "u", "i" >>
name_lint == << "l", "i", "n", "t" >>
name_docs == << "d", "o", "c", "s" >>

CheckInputs ==
    { CheckInfo(name_build, "completed", "success"),
      CheckInfo(name_build, "completed", "failure"),
      CheckInfo(name_e2e, "completed", "timed_out"),
      CheckInfo(name_lint, "in_progress", None),
      CheckInfo(name_docs, "completed", "skipped") }

ReviewInputs ==
    { ReviewInfo("alice", "APPROVED"),
      ReviewInfo("bob", "CHANGES_REQUESTED"),
      ReviewInfo("carol", "COMMENTED"),
      ReviewInfo("dave", "PENDING") }

MergeableInputs == {None, "clean", "conflicting", "dirty", "blocked"}

\* The PRInfo values determine_state is applied to.
FactsInputs ==
    [ number : {1},
      state : PRState,
      draft : BOOLEAN,
      mergeable : {None, "True", "False"},
      mergeable_state : MergeableInputs,
      checks : SeqUpTo(CheckInputs, MaxChecks),
      reviews : SeqUpTo(ReviewInputs, MaxReviews) ]

\* A PRInfo as _parse_pr_json builds it: the state field comes from
\* _parse_pr_state applied to the platform's state and draft flag, and the
\* draft field is that same flag.
from_adapter(p) ==
    \E raw \in {"OPEN", "CLOSED", "MERGED"} : p.state = parse_pr_state(raw, p.draft)

\* The check lists a get_checks query may return.
Snapshots == SeqUpTo(CheckInputs, MaxChecks)

\* Default poll_interval of CheckMonitor.wait_for_checks, in seconds.
PollInterval == 30

\* The timeouts a caller passes.
Timeouts == {0, PollInterval, MaxTimeout}

(***************************************************************************)
(* State.                                                                  *)
(***************************************************************************)
VARIABLES
    \* one PRStateMachine instance and its caller
    current_state,   \* PRStateMachine.current_state
    history,         \* PRStateMachine.history: sequence of <<state, trigger>>
    call_result,     \* outcome of the last call on the machine
    n_transitions,   \* number of transition calls that returned
    n_direct_sets,   \* number of set_state calls that changed the state
    \* one application of the deriver
    facts,           \* the PRInfo handed to determine_state
    derived,         \* the state determine_state returned for facts
    \* one call of wait_for_pr_checks (with its recursive calls)
    wpc,             \* position: idle, loop, returned, done
    w_timeout,       \* argument timeout
    w_interactive,   \* argument interactive
    elapsed,         \* time.time() - start_time of the current wait_for_checks
    checks,          \* the check list fetched last
    passed,          \* first component of what wait_for_checks returned
    deadline_passed, \* wait_for_checks left its loop because of the timeout
    prompt,          \* what handle_failed_checks offered last
    action,          \* the action handle_failed_checks returned last
    w_outcome,       \* how wait_for_pr_checks ended: True or the error raised
    err_names,       \* the check names the raised error carries
    depth,           \* number of recursive wait_for_pr_checks calls
    n_polls,         \* get_checks queries of the current wait_for_checks
    n_retries,       \* retry_checks calls
    n_pushes,        \* force pushes made by retry_checks
    \* one run of merge_pr_workflow
    pc,              \* position in merge_pr_workflow
    args,            \* the arguments and the configuration of the run
    pr_info,         \* local pr_info: the PRInfo fetched last
    wf_state,        \* local current_state
    first_state,     \* the state derived from the first fetched PRInfo
    n_fetches,       \* get_pr calls of the workflow that returned
    state_from,      \* the value of n_fetches when wf_state was derived
    anyway,          \* answer to "Merge anyway?": yes, no, or None when not asked
    confirmed,       \* answer to "Merge PR #N using M?": yes, no, or None when not asked
    exit_code,       \* the exit code returned, -1 while none is
    raised,          \* the error that left the workflow, None when none did
    llm_calls,       \* generate_commit_message calls
    merge_calls,     \* platform.merge_pr calls
    \* calls of CheckMonitor's pure methods on one check list
    m_checks,        \* the check list handed to the methods
    m_summaries,     \* << summary, all_passed >> of each summarize_checks call
    m_splits,        \* what each categorize_failures call returned
    \* calls of ReviewManager.check_approval_status
    r_reviews,       \* the reviews platform.get_reviews returns
    r_required,      \* argument required_approvals
    r_status,        \* what each check_approval_status call returned
    \* one GitHubProvider.get_pr call
    g_pc,            \* position: idle, start, inner, done
    g_use_cli,       \* GitHubProvider._use_cli()
    g_pr_number,     \* argument pr_number
    g_cause,         \* why the platform fails: none, auth, not_found, network
    g_answer,        \* what gh or the HTTP request answers
    g_inner,         \* the error _run_gh or _request raised
    g_error,         \* the error get_pr raised
    \* one BranchManager.branch_exists or is_branch_pushed call
    b_pc,            \* position: idle, start, done
    b_branch,        \* argument branch, None when is_branch_pushed gets none
    b_remote,        \* argument remote of branch_exists
    b_heads,         \* the branches of the repository the git command asks
    b_git_fails,     \* the git command exits non-zero
    b_output,        \* what run_git_command returned
    b_result,        \* what the call returned: True, False, None before it
    \* one handle_oauth_error call
    o_pc,            \* position: idle, start, reauth, retry, done
    o_error,         \* argument e: its error_type and the words of its message
    o_model,         \* argument model
    o_retry_given,   \* argument retry_func is not None
    o_auth,          \* what provider.authenticate does: True, False or the error raised
    o_retry,         \* what retry_func does: the exit code returned or the error raised
    o_provider,      \* what _find_oauth_provider returned
    o_auth_calls,    \* provider.authenticate calls
    o_retry_calls,   \* retry_func calls
    o_result,        \* the exit code returned, -1 while none is
    o_raised,        \* the error that left handle_oauth_error
    \* one resolve_pr_conflicts call
    cr_pc,           \* position: idle, start, detect, interactive, attempt, after, done
    cr_auto,         \* argument auto_resolve
    cr_strategy,     \* the strategy attempt_auto_resolution is called with
    cr_found,        \* what detect_conflicts_with_base returned
    cr_in_progress,  \* the git operation in progress: none, trial_merge, rebase, merge
    cr_cmd,          \* how the rebase or merge command ended, None before it
    cr_success,      \* first component of what attempt_auto_resolution returned
    cr_remaining,    \* second component of what attempt_auto_resolution returned
    cr_aborts,       \* rebase --abort and merge --abort commands of the attempt
    cr_pushes,       \* pushes that reached the remote branch
    cr_result,       \* what resolve_pr_conflicts returned, None before it
    \* one ensure_pr_approved call
    e_pc,            \* position: idle, start, second, third, done
    e_required,      \* argument required_approvals
    e_first,         \* the reviews check_approval_status fetched
    e_second,        \* the reviews ensure_pr_approved fetched
    e_third,         \* the reviews get_reviewers_with_changes_requested fetched
    e_result,        \* True, ReviewRequiredError, None before the call ends
    e_error          \* the fields of the ReviewRequiredError raised

smVars == << current_state, history, call_result, n_transitions, n_direct_sets >>

deriveVars == << facts, derived >>

waitVars ==
    << wpc, w_timeout, w_interactive, elapsed, checks, passed, deadline_passed,
       prompt, action, w_outcome, err_names, depth, n_polls, n_retries, n_pushes >>

mergeVars ==
    << pc, args, pr_info, wf_state, first_state, n_fetches, state_from, anyway,
       confirmed, exit_code, raised, llm_calls, merge_calls >>

monitorVars == << m_checks, m_summaries, m_splits >>

reviewVars == << r_reviews, r_required, r_status >>

platformVars ==
    << g_pc, g_use_cli, g_pr_number, g_cause, g_answer, g_inner, g_error >>

branchVars ==
    << b_pc, b_branch, b_remote, b_heads, b_git_fails, b_output, b_result >>

oauthVars ==
    << o_pc, o_error, o_model, o_retry_given, o_auth, o_retry, o_provider,
       o_auth_calls, o_retry_calls, o_result, o_raised >>

resolveVars ==
    << cr_pc, cr_auto, cr_strategy, cr_found, cr_in_progress, cr_cmd, cr_success,
       cr_remaining, cr_aborts, cr_pushes, cr_result >>

ensureVars == << e_pc, e_required, e_first, e_second, e_third, e_result, e_error >>

libVars ==
    << monitorVars, reviewVars, platformVars, branchVars, oauthVars, resolveVars,
       ensureVars >>

vars == << smVars, deriveVars, waitVars, mergeVars, libVars >>

NoFacts ==
    [ number |-> 1, state |-> "open", draft |-> FALSE, mergeable |-> None,
      mergeable_state |-> None, checks |-> << >>, reviews |-> << >> ]

NoPrompt == [ask |-> FALSE, choices |-> {}, default |-> None]

SMIdle ==
    /\ current_state = "CREATED"
    /\ history = << >>
    /\ call_result = "none"
    /\ n_transitions = 0
    /\ n_direct_sets = 0

DeriveIdle ==
    /\ facts = NoFacts
    /\ derived = None

\* The locals of wait_for_pr_checks when it is entered.
WaitEntry ==
    /\ elapsed = 0
    /\ checks = << >>
    /\ passed = FALSE
    /\ deadline_passed = FALSE
    /\ prompt = NoPrompt
    /\ action = None
    /\ w_outcome = None
    /\ err_names = << >>
    /\ depth = 0
    /\ n_polls = 0
    /\ n_retries = 0
    /\ n_pushes = 0

\* The same locals set by a step that enters or leaves wait_for_pr_checks.
WaitEntered ==
    /\ elapsed' = 0
    /\ checks' = << >>
    /\ passed' = FALSE
    /\ deadline_passed' = FALSE
    /\ prompt' = NoPrompt
    /\ action' = None
    /\ w_outcome' = None
    /\ err_names' = << >>
    /\ depth' = 0
    /\ n_polls' = 0
    /\ n_retries' = 0
    /\ n_pushes' = 0

WaitIdle ==
    /\ wpc = "idle"
    /\ w_timeout = 0
    /\ w_interactive = FALSE
    /\ WaitEntry

NoArgs ==
    [ yes |-> FALSE, wait_for_checks |-> TRUE, auto_resolve_conflicts |-> FALSE,
      message_only |-> FALSE, check_timeout |-> 0 ]

\* The locals of merge_pr_workflow when it is entered.
MergeEntry ==
    /\ pr_info = NoFacts
    /\ wf_state = None
    /\ first_state = None
    /\ n_fetches = 0
    /\ state_from = 0
    /\ anyway = None
    /\ confirmed = None
    /\ exit_code = -1
    /\ raised = None
    /\ llm_calls = 0
    /\ merge_calls = 0

MergeIdle ==
    /\ pc = "idle"
    /\ args = NoArgs
    /\ MergeEntry

MonitorIdle ==
    /\ m_checks = << >>
    /\ m_summaries = << >>
    /\ m_splits = << >>

ReviewIdle ==
    /\ r_reviews = << >>
    /\ r_required = 1
    /\ r_status = << >>

\* No error: what a call that returned leaves.
NoError == [kind |-> None, number |-> 0]

\* gh exited with 0 and printed the JSON.
GhSucceeds == [ok |-> TRUE, stderr |-> {}, token |-> TRUE, status |-> 200, message |-> {}]

PlatformIdle ==
    /\ g_pc = "idle"
    /\ g_use_cli = TRUE
    /\ g_pr_number = 0
    /\ g_cause = "none"
    /\ g_answer = GhSucceeds
    /\ g_inner = NoError
    /\ g_error = NoError

BranchIdle ==
    /\ b_pc = "idle"
    /\ b_branch = None
    /\ b_remote = FALSE
    /\ b_heads = {}
    /\ b_git_fails = FALSE
    /\ b_output = << >>
    /\ b_result = None

OAuthIdle ==
    /\ o_pc = "idle"
    /\ o_error = [error_type |-> "unknown", message |-> {}]
    /\ o_model = << >>
    /\ o_retry_given = FALSE
    /\ o_auth = "False"
    /\ o_retry = [raised |-> None, code |-> 0]
    /\ o_provider = None
    /\ o_auth_calls = 0
    /\ o_retry_calls = 0
    /\ o_result = -1
    /\ o_raised = None

ResolveIdle ==
    /\ cr_pc = "idle"
    /\ cr_auto = FALSE
    /\ cr_strategy = "rebase"
    /\ cr_found = << >>
    /\ cr_in_progress = "none"
    /\ cr_cmd = None
    /\ cr_success = FALSE
    /\ cr_remaining = << >>
    /\ cr_aborts = 0
    /\ cr_pushes = 0
    /\ cr_result = None

\* No ReviewRequiredError.
NoReviewError == [required |-> 0, approved |-> 0, changes_requested_by |-> << >>]

EnsureIdle ==
    /\ e_pc = "idle"
    /\ e_required = 1
    /\ e_first = << >>
    /\ e_second = << >>
    /\ e_third = << >>
    /\ e_result = None
    /\ e_error = NoReviewError

LibIdle ==
    /\ MonitorIdle /\ ReviewIdle /\ PlatformIdle /\ BranchIdle /\ OAuthIdle
    /\ ResolveIdle /\ EnsureIdle

SMInit == SMIdle /\ DeriveIdle /\ WaitIdle /\ MergeIdle /\ LibIdle

\* transition recording the history entry before the table lookup.
transition_record_first(g) ==
    /\ Len(history) < MaxHistory
    /\ history' = Append(history, << current_state, g >>)
    /\ IF Matching(current_state, g) # {}
       THEN /\ current_state' = VALID_TRANSITIONS[Min(Matching(current_state, g))].to_state
            /\ call_result' = "returned"
            /\ n_transitions' = n_transitions + 1
            /\ UNCHANGED n_direct_sets
       ELSE /\ call_result' = "ValueError"
            /\ UNCHANGED << current_state, n_transitions, n_direct_sets >>

\* PRStateMachine.transition(trigger): the first table entry matching
\* (current_state, trigger) is taken; ValueError when there is none.
transition(g) ==
    IF Matching(current_state, g) # {}
    THEN LET t == VALID_TRANSITIONS[Min(Matching(current_state, g))] IN
         /\ Len(history) < MaxHistory
         /\ history' = Append(history, << current_state, g >>)
         /\ current_state' = t.to_state
         /\ call_result' = "returned"
         /\ n_transitions' = n_transitions + 1
         /\ UNCHANGED n_direct_sets
    ELSE /\ call_result' = "ValueError"
         /\ UNCHANGED << current_state, history, n_transitions, n_direct_sets >>

\* set_state that leaves a terminal state alone, as the table would.
set_state_keeps_terminal(s) ==
    IF s # current_state /\ ~is_terminal(current_state)
    THEN /\ Len(history) < MaxHistory
         /\ history' = Append(history, << current_state, "direct_set" >>)
         /\ current_state' = s
         /\ call_result' = "set"
         /\ n_direct_sets' = n_direct_sets + 1
         /\ UNCHANGED n_transitions
    ELSE /\ call_result' = "set"
         /\ UNCHANGED << current_state, history, n_transitions, n_direct_sets >>

\* set_state without the test that the state changes.
set_state_always_records(s) ==
    /\ Len(history) < MaxHistory
    /\ history' = Append(history, << current_state, "direct_set" >>)
    /\ current_state' = s
    /\ call_result' = "set"
    /\ n_direct_sets' = IF s # current_state THEN n_direct_sets + 1 ELSE n_direct_sets
    /\ UNCHANGED n_transitions

\* PRStateMachine.set_state(state)
set_state(s) ==
    IF s # current_state
    THEN /\ Len(history) < MaxHistory
         /\ history' = Append(history, << current_state, "direct_set" >>)
         /\ current_state' = s
         /\ call_result' = "set"
         /\ n_direct_sets' = n_direct_sets + 1
         /\ UNCHANGED n_transitions
    ELSE /\ call_result' = "set"
         /\ UNCHANGED << current_state, history, n_transitions, n_direct_sets >>

Transition == \E g \in Triggers : transition(g)

SetState == \E s \in PRLifecycleState : set_state(s)

SMNext ==
    (Transition \/ SetState) /\ UNCHANGED << deriveVars, waitVars, mergeVars, libVars >>

SpecSM == SMInit /\ [][SMNext]_vars

\* TransitionOnly with the history entry holding the state entered.
TransitionOnly_records_new_state ==
    /\ \E g \in Triggers :
         IF Matching(current_state, g) # {}
         THEN LET t == VALID_TRANSITIONS[Min(Matching(current_state, g))] IN
              /\ Len(history) < MaxPath
              /\ history' = Append(history, << t.to_state, g >>)
              /\ current_state' = t.to_state
              /\ call_result' = "returned"
              /\ n_transitions' = n_transitions + 1
         ELSE /\ call_result' = "ValueError"
              /\ UNCHANGED << current_state, history, n_transitions >>
    /\ UNCHANGED n_direct_sets

\* A machine driven by transition calls only: PRStateMachine.transition
\* called up to MaxPath times on a machine that starts in CREATED.
TransitionOnly ==
    /\ \E g \in Triggers :
         IF Matching(current_state, g) # {}
         THEN LET t == VALID_TRANSITIONS[Min(Matching(current_state, g))] IN
              /\ Len(history) < MaxPath
              /\ history' = Append(history, << current_state, g >>)
              /\ current_state' = t.to_state
              /\ call_result' = "returned"
              /\ n_transitions' = n_transitions + 1
         ELSE /\ call_result' = "ValueError"
              /\ UNCHANGED << current_state, history, n_transitions >>
    /\ UNCHANGED n_direct_sets

PathNext == TransitionOnly /\ UNCHANGED << deriveVars, waitVars, mergeVars, libVars >>

SpecPath == SMInit /\ [][PathNext]_vars

(***************************************************************************)
(* Deriving the lifecycle state of a PRInfo.                               *)
(***************************************************************************)
DeriveInit ==
    /\ SMIdle
    /\ WaitIdle
    /\ MergeIdle
    /\ LibIdle
    /\ facts \in FactsInputs
    /\ derived = None

DetermineState ==
    /\ derived = None
    /\ derived' = determine_state(facts)
    /\ UNCHANGED facts

DeriveNext == DetermineState /\ UNCHANGED << smVars, waitVars, mergeVars, libVars >>

SpecDerive == DeriveInit /\ [][DeriveNext]_vars

(***************************************************************************)
(* check_monitor.py: wait_for_pr_checks and CheckMonitor.wait_for_checks   *)
(***************************************************************************)
WaitInit ==
    /\ SMIdle
    /\ DeriveIdle
    /\ MergeIdle
    /\ LibIdle
    /\ wpc = "loop"
    /\ w_timeout \in Timeouts
    /\ w_interactive \in BOOLEAN
    /\ WaitEntry

\* The polling loop with the deadline test elapsed <= timeout.
Poll_inclusive_deadline ==
    /\ wpc = "loop"
    /\ elapsed <= w_timeout
    /\ \E snapshot \in Snapshots :
         /\ checks' = snapshot
         /\ n_polls' = n_polls + 1
         /\ IF is_complete(summarize_checks(snapshot))
            THEN /\ passed' = all_passed(summarize_checks(snapshot))
                 /\ wpc' = "returned"
                 /\ UNCHANGED elapsed
            ELSE /\ \E d \in PollInterval..(PollInterval + MaxOvershoot) :
                        elapsed' = elapsed + d
                 /\ UNCHANGED << wpc, passed >>
    /\ UNCHANGED << w_timeout, w_interactive, deadline_passed, prompt, action,
                    w_outcome, err_names, depth, n_retries, n_pushes >>

\* One iteration of the polling loop of wait_for_checks: the deadline has not
\* passed, the checks are fetched; a complete list is returned, otherwise the
\* thread sleeps for at least the poll interval.
Poll ==
    /\ wpc = "loop"
    /\ elapsed < w_timeout
    /\ \E snapshot \in Snapshots :
         /\ checks' = snapshot
         /\ n_polls' = n_polls + 1
         /\ IF is_complete(summarize_checks(snapshot))
            THEN /\ passed' = all_passed(summarize_checks(snapshot))
                 /\ wpc' = "returned"
                 /\ UNCHANGED elapsed
            ELSE /\ \E d \in PollInterval..(PollInterval + MaxOvershoot) :
                        elapsed' = elapsed + d
                 /\ UNCHANGED << wpc, passed >>
    /\ UNCHANGED << w_timeout, w_interactive, deadline_passed, prompt, action,
                    w_outcome, err_names, depth, n_retries, n_pushes >>

\* The query wait_for_checks makes after the loop ended by the deadline.
FinalQuery ==
    /\ wpc = "loop"
    /\ elapsed >= w_timeout
    /\ \E snapshot \in Snapshots :
         /\ checks' = snapshot
         /\ passed' = all_passed(summarize_checks(snapshot))
    /\ n_polls' = n_polls + 1
    /\ deadline_passed' = TRUE
    /\ wpc' = "returned"
    /\ UNCHANGED << w_timeout, w_interactive, elapsed, prompt, action,
                    w_outcome, err_names, depth, n_retries, n_pushes >>

\* platform.get_checks raises: the error leaves wait_for_pr_checks.
GetChecksFails ==
    /\ wpc = "loop"
    /\ wpc' = "done"
    /\ w_outcome' = "PlatformError"
    /\ UNCHANGED << w_timeout, w_interactive, elapsed, checks, passed,
                    deadline_passed, prompt, action, err_names, depth, n_polls,
                    n_retries, n_pushes >>

\* wait_for_pr_checks with failed checks tested before pending ones.
wait_verdict_failed_first(ok, cs) ==
    IF ok THEN "passed"
    ELSE IF summarize_checks(cs).failed > 0 THEN "failed"
    ELSE "pending"

\* wait_for_pr_checks, the tests on what wait_for_checks returned: success,
\* then pending checks, then the handling of failures.
wait_verdict(ok, cs) ==
    IF ok THEN "passed"
    ELSE IF summarize_checks(cs).pending > 0 THEN "pending"
    ELSE "failed"

\* wait_for_pr_checks ends with the given outcome.
WaitEnds(outcome, names) ==
    /\ wpc' = "done"
    /\ w_outcome' = outcome
    /\ err_names' = names
    /\ UNCHANGED << elapsed, depth, n_polls, deadline_passed, checks, passed >>

\* The recursive call refused after the first one.
WaitAgain_retry_limit ==
    IF depth < 1
    THEN /\ depth' = depth + 1
         /\ wpc' = "loop"
         /\ elapsed' = 0
         /\ n_polls' = 0
         /\ deadline_passed' = FALSE
         /\ checks' = << >>
         /\ passed' = FALSE
         /\ UNCHANGED << w_outcome, err_names >>
    ELSE WaitEnds("ChecksFailedError", failed_names(checks))

\* wait_for_pr_checks calls itself: a new wait_for_checks starts, and the
\* new call has no check list yet.
WaitAgain ==
    /\ depth < MaxRecursion
    /\ depth' = depth + 1
    /\ wpc' = "loop"
    /\ elapsed' = 0
    /\ n_polls' = 0
    /\ deadline_passed' = FALSE
    /\ checks' = << >>
    /\ passed' = FALSE
    /\ UNCHANGED << w_outcome, err_names >>

\* wait_for_pr_checks from the return of wait_for_checks on: success, the
\* pending error, or the handling of failed checks with the user's choice and
\* the outcome of retry_checks.
HandleResult ==
    /\ wpc = "returned"
    /\ UNCHANGED << w_timeout, w_interactive >>
    /\ IF wait_verdict(passed, checks) = "passed"
       THEN /\ WaitEnds("True", << >>)
            /\ UNCHANGED << prompt, action, n_retries, n_pushes >>
       ELSE IF wait_verdict(passed, checks) = "pending"
       THEN /\ WaitEnds("ChecksPendingError", pending_names(checks))
            /\ UNCHANGED << prompt, action, n_retries, n_pushes >>
       ELSE LET offer == handle_failed_checks(checks, w_interactive) IN
            \E choice \in offer.choices :
               /\ prompt' = offer
               /\ action' = choice
               /\ CASE choice = "retry" ->
                         /\ n_retries' = n_retries + 1
                         /\ \/ /\ n_pushes' = n_pushes + 1
                               /\ WaitAgain
                            \/ /\ UNCHANGED n_pushes
                               /\ WaitEnds("ChecksFailedError",
                                           failed_names(checks))
                    [] choice = "ignore" ->
                         /\ WaitEnds("True", << >>)
                         /\ UNCHANGED << n_retries, n_pushes >>
                    [] choice = "wait" ->
                         /\ WaitAgain
                         /\ UNCHANGED << n_retries, n_pushes >>
                    [] OTHER ->
                         /\ WaitEnds("ChecksFailedError",
                                     failed_names(checks))
                         /\ UNCHANGED << n_retries, n_pushes >>

WaitStep == Poll \/ FinalQuery \/ GetChecksFails \/ HandleResult

WaitNext == WaitStep /\ UNCHANGED << smVars, deriveVars, mergeVars, libVars >>

SpecWait == WaitInit /\ [][WaitNext]_vars

(***************************************************************************)
(* main.py: merge_pr_workflow                                              *)
(***************************************************************************)
Facts(st, dr, ms, cs, rs) ==
    [ number |-> 1, state |-> st, draft |-> dr, mergeable |-> None,
      mergeable_state |-> ms, checks |-> cs, reviews |-> rs ]

check_ok == CheckInfo(name_build, "completed", "success")
check_failed == CheckInfo(name_build, "completed", "failure")
check_flaky == CheckInfo(name_e2e, "completed", "timed_out")
check_running == CheckInfo(name_lint, "in_progress", None)
check_skipped == CheckInfo(name_docs, "completed", "skipped")

\* The PRInfo values platform.get_pr may return to the workflow: at least one
\* for every state the deriver can return.
MergeFacts ==
    { Facts("merged", FALSE, None, << check_ok >>, << >>),
      Facts("closed", FALSE, None, << >>, << >>),
      Facts("open", TRUE, None, << check_failed >>, << >>),
      Facts("draft", TRUE, None, << check_ok >>, << >>),
      Facts("open", FALSE, "conflicting", << check_running >>, << >>),
      Facts("open", FALSE, "clean", << check_running >>, << >>),
      Facts("open", FALSE, "clean", << check_failed, check_flaky >>, << >>),
      Facts("open", FALSE, "clean", << check_ok >>,
            << ReviewInfo("bob", "CHANGES_REQUESTED") >>),
      Facts("open", FALSE, "clean", << check_ok >>,
            << ReviewInfo("carol", "COMMENTED") >>),
      Facts("open", FALSE, "clean", << check_ok >>,
            << ReviewInfo("alice", "APPROVED") >>),
      Facts("open", FALSE, "clean", << check_skipped >>, << >>),
      Facts("open", FALSE, None, << >>, << >>) }

\* PRStateMachine.from_pr_info
from_pr_info(p) ==
    [ current_state |-> determine_state(p), history |-> << >>,
      pr_number |-> p.number ]

MergeInit ==
    /\ SMIdle
    /\ DeriveIdle
    /\ WaitIdle
    /\ LibIdle
    /\ pc = "start"
    /\ args \in [ yes : BOOLEAN, wait_for_checks : BOOLEAN,
                  auto_resolve_conflicts : BOOLEAN, message_only : BOOLEAN,
                  check_timeout : {PollInterval} ]
    /\ MergeEntry

\* return code
Return(code) ==
    /\ pc' = "done"
    /\ exit_code' = code
    /\ UNCHANGED raised

\* an error nobody in the workflow catches
Propagate(error) ==
    /\ pc' = "done"
    /\ raised' = error
    /\ UNCHANGED exit_code

\* lines 369-375: get_platform_provider()
GetPlatformProvider ==
    /\ pc = "start"
    /\ \/ Return(1)
       \/ pc' = "get_pr" /\ UNCHANGED << exit_code, raised >>
    /\ UNCHANGED << args, pr_info, wf_state, first_state, n_fetches, state_from,
                    anyway, llm_calls, merge_calls >>
    /\ UNCHANGED waitVars
    /\ UNCHANGED confirmed

\* lines 377-388: platform.get_pr and PRStateMachine.from_pr_info
GetPr ==
    /\ pc = "get_pr"
    /\ \/ /\ Return(1)
          /\ UNCHANGED << pr_info, wf_state, first_state, n_fetches, state_from >>
       \/ \E p \in MergeFacts :
            /\ pr_info' = p
            /\ n_fetches' = n_fetches + 1
            /\ wf_state' = from_pr_info(p).current_state
            /\ first_state' = from_pr_info(p).current_state
            /\ state_from' = n_fetches + 1
            /\ pc' = "branch"
            /\ UNCHANGED << exit_code, raised >>
    /\ UNCHANGED << args, anyway, llm_calls, merge_calls >>
    /\ UNCHANGED waitVars
    /\ UNCHANGED confirmed

\* The first branches without the one for DRAFT.
terminal_branch_no_draft(st) ==
    IF st = "MERGED" THEN 0
    ELSE IF st = "CLOSED" THEN 1
    ELSE -1

\* lines 393-403: the exit code of the MERGED, CLOSED and DRAFT branches,
\* -1 when the workflow goes on.
terminal_branch(st) ==
    IF st = "MERGED" THEN 0
    ELSE IF st = "CLOSED" THEN 1
    ELSE IF st = "DRAFT" THEN 1
    ELSE -1

\* lines 393-403: the MERGED, CLOSED and DRAFT branches
BranchTerminal ==
    /\ pc = "branch"
    /\ IF terminal_branch(wf_state) >= 0
       THEN Return(terminal_branch(wf_state))
       ELSE pc' = "conflict" /\ UNCHANGED << exit_code, raised >>
    /\ UNCHANGED << args, pr_info, wf_state, first_state, n_fetches, state_from,
                    anyway, llm_calls, merge_calls >>
    /\ UNCHANGED waitVars
    /\ UNCHANGED confirmed

\* lines 405-418: the CONFLICT branch.  resolve_pr_conflicts returns True or
\* False or fails with the platform error of its own get_pr; after True the
\* facts are fetched again and the state is derived from them.
BranchConflict ==
    /\ pc = "conflict"
    /\ IF wf_state = "CONFLICT"
       THEN IF args.auto_resolve_conflicts
            THEN \/ \E p \in MergeFacts :
                      /\ pr_info' = p
                      /\ n_fetches' = n_fetches + 1
                      /\ wf_state' = from_pr_info(p).current_state
                      /\ state_from' = n_fetches + 1
                      /\ pc' = "checks"
                      /\ UNCHANGED << exit_code, raised >>
                 \/ /\ Propagate("PlatformError")
                    /\ UNCHANGED << pr_info, n_fetches, wf_state, state_from >>
                 \/ /\ Return(1)
                    /\ UNCHANGED << pr_info, n_fetches, wf_state, state_from >>
            ELSE /\ Return(1)
                 /\ UNCHANGED << pr_info, n_fetches, wf_state, state_from >>
       ELSE /\ pc' = "checks"
            /\ UNCHANGED << exit_code, raised, pr_info, n_fetches, wf_state, state_from >>
    /\ UNCHANGED << args, first_state, anyway, llm_calls, merge_calls >>
    /\ UNCHANGED waitVars
    /\ UNCHANGED confirmed

\* lines 420-430 and 437-439: the CHECKS_RUNNING / CHECKS_FAILED branch up to
\* the call of wait_for_pr_checks
BranchChecks ==
    /\ pc = "checks"
    /\ IF wf_state \in {"CHECKS_RUNNING", "CHECKS_FAILED"} /\ args.wait_for_checks
       THEN /\ pc' = "waiting"
            /\ wpc' = "loop"
            /\ w_timeout' = args.check_timeout
            /\ w_interactive' = ~args.yes
            /\ WaitEntered
            /\ UNCHANGED << exit_code, raised >>
       ELSE /\ IF wf_state = "CHECKS_FAILED"
               THEN Return(1)
               ELSE pc' = "changes" /\ UNCHANGED << exit_code, raised >>
            /\ UNCHANGED waitVars
    /\ UNCHANGED << args, pr_info, wf_state, first_state, n_fetches, state_from,
                    anyway, llm_calls, merge_calls >>
    /\ UNCHANGED confirmed

\* lines 424-436: wait_for_pr_checks has ended.  After True the facts are
\* fetched again; only ChecksFailedError is caught.
AfterWait ==
    /\ pc = "waiting"
    /\ wpc = "done"
    /\ CASE w_outcome = "True" ->
              \/ \E p \in MergeFacts :
                   /\ pr_info' = p
                   /\ n_fetches' = n_fetches + 1
                   /\ pc' = "changes"
                   /\ UNCHANGED << exit_code, raised >>
              \/ /\ Propagate("PlatformError")
                 /\ UNCHANGED << pr_info, n_fetches >>
         [] w_outcome = "ChecksFailedError" ->
              /\ Return(1)
              /\ UNCHANGED << pr_info, n_fetches >>
         [] OTHER ->
              /\ Propagate(w_outcome)
              /\ UNCHANGED << pr_info, n_fetches >>
    /\ wpc' = "idle"
    /\ w_timeout' = 0
    /\ w_interactive' = FALSE
    /\ WaitEntered
    /\ UNCHANGED << args, wf_state, first_state, state_from, anyway, llm_calls,
                    merge_calls >>
    /\ UNCHANGED confirmed

\* lines 441-447: the CHANGES_REQUESTED branch.  The reviews are fetched for
\* the message; without yes the user is asked "Merge anyway?".
BranchChangesRequested ==
    /\ pc = "changes"
    /\ IF wf_state = "CHANGES_REQUESTED"
       THEN \/ /\ Propagate("PlatformError")
               /\ UNCHANGED anyway
            \/ IF ~args.yes
               THEN \E answer \in BOOLEAN :
                      /\ anyway' = IF answer THEN "yes" ELSE "no"
                      /\ IF answer
                         THEN pc' = "generate" /\ UNCHANGED << exit_code, raised >>
                         ELSE Return(1)
               ELSE /\ pc' = "generate"
                    /\ UNCHANGED << exit_code, raised, anyway >>
       ELSE /\ pc' = "generate"
            /\ UNCHANGED << exit_code, raised, anyway >>
    /\ UNCHANGED << args, pr_info, wf_state, first_state, n_fetches, state_from,
                    llm_calls, merge_calls >>
    /\ UNCHANGED waitVars
    /\ UNCHANGED confirmed

\* lines 449-506: the model is taken from the argument or the configuration;
\* when there is one the prompt is built and the LLM is asked for the merge
\* message, which may fail
Generate ==
    /\ pc = "generate"
    /\ \/ Return(2) /\ UNCHANGED llm_calls
       \/ /\ llm_calls' = llm_calls + 1
          /\ \/ Return(4)
             \/ IF args.message_only
                THEN Return(0)
                ELSE pc' = "confirm" /\ UNCHANGED << exit_code, raised >>
    /\ UNCHANGED << args, pr_info, wf_state, first_state, n_fetches, state_from,
                    anyway, merge_calls >>
    /\ UNCHANGED waitVars
    /\ UNCHANGED confirmed

\* The final confirmation with a merge made whatever the answer is.
ConfirmAndMerge_merges_on_decline ==
    /\ pc = "confirm"
    /\ IF args.yes
       THEN UNCHANGED confirmed
       ELSE \E answer \in {"yes", "no"} : confirmed' = answer
    /\ merge_calls' = merge_calls + 1
    /\ \E code \in {0, 1} : Return(code)
    /\ UNCHANGED << args, pr_info, wf_state, first_state, n_fetches, state_from,
                    anyway, llm_calls >>
    /\ UNCHANGED waitVars

\* lines 512-545: the final confirmation, asked unless yes is set, and
\* platform.merge_pr, which returns True or False or raises a platform
\* error that is caught
ConfirmAndMerge ==
    /\ pc = "confirm"
    /\ \/ /\ ~args.yes
          /\ confirmed' = "no"
          /\ Return(0)
          /\ UNCHANGED merge_calls
       \/ /\ IF args.yes THEN UNCHANGED confirmed ELSE confirmed' = "yes"
          /\ merge_calls' = merge_calls + 1
          /\ \E code \in {0, 1} : Return(code)
    /\ UNCHANGED << args, pr_info, wf_state, first_state, n_fetches, state_from,
                    anyway, llm_calls >>
    /\ UNCHANGED waitVars

MergeStep ==
    \/ GetPlatformProvider
    \/ GetPr
    \/ BranchTerminal
    \/ BranchConflict
    \/ BranchChecks
    \/ AfterWait
    \/ BranchChangesRequested
    \/ Generate
    \/ ConfirmAndMerge

MergeNext ==
    \/ MergeStep /\ UNCHANGED << smVars, deriveVars, libVars >>
    \/ pc = "waiting" /\ WaitStep /\ UNCHANGED << smVars, deriveVars, mergeVars, libVars >>

SpecMerge == MergeInit /\ [][MergeNext]_vars

(***************************************************************************)
(* Properties of the deriver (SpecDerive).                                 *)
(***************************************************************************)

(***************************************************************************)
(* CheckMonitor.summarize_checks and categorize_failures called on one     *)
(* check list.                                                             *)
(***************************************************************************)
name_integ == << "c", "i", "-", "I", "n", "t", "e", "g", "r", "a", "t", "i", "o", "n" >>
name_unstab == << "u", "n", "s", "t", "a", "b" >>

\* The CheckInfo values of the check lists: every conclusion and status the
\* adapters build, on names with and without a flaky pattern.
MonitorChecks ==
    { CheckInfo(n, "completed", c) :
        n \in {name_build, name_e2e},
        c \in {"success", "failure", "timed_out", "cancelled", "skipped", "neutral"} }
    \cup { CheckInfo(n, s, None) : n \in {name_lint, name_integ}, s \in {"queued", "in_progress"} }
    \cup { CheckInfo(name_integ, "completed", "failure"),
           CheckInfo(name_unstab, "completed", "failure"),
           CheckInfo(name_unstab, "in_progress", "cancelled") }

MonitorInit ==
    /\ SMIdle
    /\ DeriveIdle
    /\ WaitIdle
    /\ MergeIdle
    /\ ReviewIdle
    /\ PlatformIdle
    /\ BranchIdle
    /\ OAuthIdle
    /\ ResolveIdle
    /\ EnsureIdle
    /\ m_checks \in SeqUpTo(MonitorChecks, MaxChecks)
    /\ m_summaries = << >>
    /\ m_splits = << >>

\* summary = monitor.summarize_checks(checks); summary.all_passed
SummarizeChecks ==
    /\ Len(m_summaries) < MaxCalls
    /\ m_summaries' = Append(m_summaries,
                             << summarize_checks(m_checks),
                                all_passed(summarize_checks(m_checks)) >>)
    /\ UNCHANGED << m_checks, m_splits >>

\* flaky, blocking = monitor.categorize_failures(checks)
CategorizeFailures ==
    /\ Len(m_splits) < MaxCalls
    /\ m_splits' = Append(m_splits, categorize_failures(m_checks))
    /\ UNCHANGED << m_checks, m_summaries >>

MonitorNext ==
    (SummarizeChecks \/ CategorizeFailures)
    /\ UNCHANGED << smVars, deriveVars, waitVars, mergeVars, reviewVars, platformVars, branchVars,
                 oauthVars, resolveVars,
                    ensureVars >>

SpecMonitor == MonitorInit /\ [][MonitorNext]_vars

(***************************************************************************)
(* review_manager.py: ReviewManager.summarize_reviews and                  *)
(* check_approval_status.                                                  *)
(***************************************************************************)
summarize_reviews(reviews) ==
    LET count(st) == Len(SelectSeq(reviews, LAMBDA r : r.state = st)) IN
    [ total |-> Len(reviews),
      approved |-> count("APPROVED"),
      changes_requested |-> count("CHANGES_REQUESTED"),
      commented |-> count("COMMENTED"),
      pending |-> count("PENDING"),
      dismissed |-> count("DISMISSED") ]

\* check_approval_status testing the approval count before the requests
\* for changes.
check_approval_status_count_first(reviews, required_approvals) ==
    LET summary == summarize_reviews(reviews)
        sel == SelectSeq(reviews, requests_changes)
        requesters == [i \in DOMAIN sel |-> sel[i].user]
    IN  IF summary.approved >= required_approvals
        THEN [approved |-> TRUE, message |-> "Approved by", users |-> << >>,
              number |-> summary.approved]
        ELSE IF summary.changes_requested > 0
        THEN [approved |-> FALSE, message |-> "Changes requested by",
              users |-> requesters, number |-> 0]
        ELSE [approved |-> FALSE, message |-> "Need more approval(s)", users |-> << >>,
              number |-> required_approvals - summary.approved]

\* ReviewManager.check_approval_status on the reviews get_reviews returned:
\* the flag, and the message as its text, the users it joins and the number
\* it formats.
check_approval_status(reviews, required_approvals) ==
    LET summary == summarize_reviews(reviews)
        sel == SelectSeq(reviews, requests_changes)
        requesters == [i \in DOMAIN sel |-> sel[i].user]
    IN  IF summary.changes_requested > 0
        THEN [approved |-> FALSE, message |-> "Changes requested by",
              users |-> requesters, number |-> 0]
        ELSE IF summary.approved >= required_approvals
        THEN [approved |-> TRUE, message |-> "Approved by", users |-> << >>,
              number |-> summary.approved]
        ELSE [approved |-> FALSE, message |-> "Need more approval(s)", users |-> << >>,
              number |-> required_approvals - summary.approved]

\* The reviews of the review lists: every review state, two approving users
\* and a user with a review of each kind.
ReviewListInputs ==
    ReviewInputs \cup { ReviewInfo("erin", "APPROVED"),
                        ReviewInfo("frank", "DISMISSED"),
                        ReviewInfo("alice", "CHANGES_REQUESTED") }

ReviewInit ==
    /\ SMIdle
    /\ DeriveIdle
    /\ WaitIdle
    /\ MergeIdle
    /\ MonitorIdle
    /\ PlatformIdle
    /\ BranchIdle
    /\ OAuthIdle
    /\ ResolveIdle
    /\ EnsureIdle
    /\ r_reviews \in SeqUpTo(ReviewListInputs, MaxReviews)
    /\ r_required \in 0..MaxRequired
    /\ r_status = << >>

\* approved, message = manager.check_approval_status(pr_number, required_approvals)
CheckApprovalStatus ==
    /\ Len(r_status) < MaxCalls
    /\ r_status' = Append(r_status, check_approval_status(r_reviews, r_required))
    /\ UNCHANGED << r_reviews, r_required >>

ReviewNext ==
    CheckApprovalStatus
    /\ UNCHANGED << smVars, deriveVars, waitVars, mergeVars, monitorVars, platformVars, branchVars,
                 oauthVars, resolveVars,
                    ensureVars >>

SpecReview == ReviewInit /\ [][ReviewNext]_vars

(***************************************************************************)
(* platforms/github: GitHubProvider.get_pr over the CLI adapter (_run_gh)  *)
(* and the API adapter (_request).                                         *)
(***************************************************************************)
\* An error raised: its class and, for PRNotFoundError, the number it names.
Error(kind, number) == [kind |-> kind, number |-> number]

\* GitHubCLIAdapter._run_gh: the error raised for a gh run, from the exit
\* status and the phrases its lower-cased stderr contains.
run_gh(answer) ==
    IF answer.ok THEN NoError
    ELSE IF answer.stderr \cap {"not authenticated", "authentication"} # {}
    THEN Error("PlatformAuthError", 0)
    ELSE IF answer.stderr \cap {"could not find", "not found"} # {}
    THEN Error("PRNotFoundError", 0)
    ELSE IF "merge conflict" \in answer.stderr
    THEN Error("MergeConflictError", 0)
    ELSE Error("PlatformError", 0)

\* GitHubAPIAdapter._request: the error raised for a request, from the
\* token, the status code (0: no response, the transport failed) and the
\* phrases the lower-cased message contains.
request(answer) ==
    IF ~answer.token THEN Error("PlatformAuthError", 0)
    ELSE IF answer.status = 0 THEN Error("PlatformError", 0)
    ELSE IF answer.status = 401 THEN Error("PlatformAuthError", 0)
    ELSE IF answer.status = 404 THEN Error("PRNotFoundError", 0)
    ELSE IF answer.status = 409
    THEN IF "merge conflict" \in answer.message
         THEN Error("MergeConflictError", 0)
         ELSE Error("PlatformError", 0)
    ELSE IF answer.status >= 400 THEN Error("PlatformError", 0)
    ELSE NoError

\* Every error class of _run_gh and _request derives from PlatformError.
is_platform_error(e) ==
    e.kind \in {"PlatformError", "PlatformAuthError", "PRNotFoundError", "MergeConflictError"}

\* GitHubCLIAdapter.get_pr: except PlatformError -> PRNotFoundError(pr_number)
cli_get_pr(inner, pr_number) ==
    IF is_platform_error(inner) THEN Error("PRNotFoundError", pr_number) ELSE NoError

\* GitHubAPIAdapter.get_pr: except PRNotFoundError -> PRNotFoundError(pr_number)
api_get_pr(inner, pr_number) ==
    IF inner.kind = "PRNotFoundError" THEN Error("PRNotFoundError", pr_number) ELSE inner

GhFails(phrases) ==
    [ok |-> FALSE, stderr |-> phrases, token |-> TRUE, status |-> 0, message |-> {}]

Response(tok, code, msg) ==
    [ok |-> FALSE, stderr |-> {}, token |-> tok, status |-> code, message |-> msg]

\* What gh pr view answers for each cause of failure.
GhAnswers ==
    { << "none", GhSucceeds >>,
      << "auth", GhFails({"not authenticated"}) >>,
      << "auth", GhFails({"authentication"}) >>,
      << "not_found", GhFails({"could not find"}) >>,
      << "not_found", GhFails({"not found"}) >>,
      << "network", GhFails({}) >> }

\* What GET /repos/.../pulls/N answers for each cause of failure.
ApiAnswers ==
    { << "none", Response(TRUE, 200, {}) >>,
      << "auth", Response(FALSE, 0, {}) >>,
      << "auth", Response(TRUE, 401, {}) >>,
      << "not_found", Response(TRUE, 404, {}) >>,
      << "network", Response(TRUE, 409, {}) >>,
      << "network", Response(TRUE, 500, {}) >>,
      << "network", Response(TRUE, 0, {}) >> }

PrNumbers == {1, 7, 42}

PlatformInit ==
    /\ SMIdle
    /\ DeriveIdle
    /\ WaitIdle
    /\ MergeIdle
    /\ MonitorIdle
    /\ ReviewIdle
    /\ BranchIdle
    /\ OAuthIdle
    /\ ResolveIdle
    /\ EnsureIdle
    /\ g_pc = "start"
    /\ g_use_cli \in BOOLEAN
    /\ g_pr_number \in PrNumbers
    /\ \E a \in (IF g_use_cli THEN GhAnswers ELSE ApiAnswers) :
          g_cause = a[1] /\ g_answer = a[2]
    /\ g_inner = NoError
    /\ g_error = NoError

\* The gh run of the CLI adapter, or the request of the API adapter.
InnerCall ==
    /\ g_pc = "start"
    /\ g_inner' = IF g_use_cli THEN run_gh(g_answer) ELSE request(g_answer)
    /\ g_pc' = "inner"
    /\ UNCHANGED << g_use_cli, g_pr_number, g_cause, g_answer, g_error >>

\* get_pr returns the parsed PRInfo or leaves through its except clause.
GetPrEnds ==
    /\ g_pc = "inner"
    /\ g_error' = IF g_use_cli
                  THEN cli_get_pr(g_inner, g_pr_number)
                  ELSE api_get_pr(g_inner, g_pr_number)
    /\ g_pc' = "done"
    /\ UNCHANGED << g_use_cli, g_pr_number, g_cause, g_answer, g_inner >>

PlatformNext ==
    (InnerCall \/ GetPrEnds)
    /\ UNCHANGED << smVars, deriveVars, waitVars, mergeVars, monitorVars, reviewVars, branchVars,
                 oauthVars, resolveVars,
                    ensureVars >>

SpecPlatform == PlatformInit /\ [][PlatformNext]_vars

(***************************************************************************)
(* branch_manager.py: BranchManager.branch_exists and is_branch_pushed.    *)
(***************************************************************************)
Branches == {"main", "feature", "hotfix"}

\* get_current_branch()
CurrentBranch == "feature"

\* What run_git_command gives for the command branch_exists runs: GitError
\* when git exits non-zero, else git's output. git ls-remote --heads exits
\* with 0 and lists the heads that match, none when there is none;
\* git rev-parse --verify exits non-zero for a name that is no branch.
run_git_command(branch, remote, heads, fails) ==
    IF fails THEN [raised |-> TRUE, output |-> << >>]
    ELSE IF remote
    THEN [raised |-> FALSE, output |-> IF branch \in heads THEN << branch >> ELSE << >>]
    ELSE IF branch \in heads
    THEN [raised |-> FALSE, output |-> << branch >>]
    ELSE [raised |-> TRUE, output |-> << >>]

\* BranchManager.branch_exists: True unless run_git_command raised GitError
branch_exists(git) == ~git.raised

BranchInit ==
    /\ SMIdle
    /\ DeriveIdle
    /\ WaitIdle
    /\ MergeIdle
    /\ MonitorIdle
    /\ ReviewIdle
    /\ PlatformIdle
    /\ OAuthIdle
    /\ ResolveIdle
    /\ EnsureIdle
    /\ b_pc = "start"
    /\ b_branch \in Branches \cup {None}
    /\ b_remote \in BOOLEAN
    /\ b_heads \in SUBSET Branches
    /\ b_git_fails \in BOOLEAN
    /\ b_output = << >>
    /\ b_result = None

\* manager.branch_exists(branch, remote)
BranchExists ==
    /\ b_pc = "start"
    /\ b_branch # None
    /\ LET git == run_git_command(b_branch, b_remote, b_heads, b_git_fails) IN
         /\ b_output' = git.output
         /\ b_result' = IF branch_exists(git) THEN "True" ELSE "False"
    /\ b_pc' = "done"
    /\ UNCHANGED << b_branch, b_remote, b_heads, b_git_fails >>

\* manager.is_branch_pushed(branch): branch_exists(branch or current, remote=True)
IsBranchPushed ==
    /\ b_pc = "start"
    /\ LET branch == IF b_branch = None THEN CurrentBranch ELSE b_branch
           git == run_git_command(branch, TRUE, b_heads, b_git_fails)
       IN  /\ b_output' = git.output
           /\ b_result' = IF branch_exists(git) THEN "True" ELSE "False"
           /\ b_branch' = branch
    /\ b_remote' = TRUE
    /\ b_pc' = "done"
    /\ UNCHANGED << b_heads, b_git_fails >>

BranchNext ==
    (BranchExists \/ IsBranchPushed)
    /\ UNCHANGED << smVars, deriveVars, waitVars, mergeVars, monitorVars, reviewVars,
                    platformVars, oauthVars, resolveVars,
                    ensureVars >>

SpecBranch == BranchInit /\ [][BranchNext]_vars

(***************************************************************************)
(* oauth_retry.py: handle_oauth_error, _find_oauth_provider and            *)
(* _attempt_reauth_and_retry.                                              *)
(***************************************************************************)
\* OAUTH_PROVIDERS: the prefix, as the tokens of the model string it starts,
\* and whether the provider has an extra_error_check.
OAUTH_PROVIDERS ==
    << [provider_prefix |-> << "claude-code", ":" >>, extra_error_check |-> TRUE],
       [provider_prefix |-> << "qwen", ":" >>, extra_error_check |-> FALSE] >>

\* model.startswith(prefix)
startswith(model, prefix) ==
    /\ Len(model) >= Len(prefix)
    /\ SubSeq(model, 1, Len(prefix)) = prefix

\* _claude_code_extra_check: the lower-cased message contains expired or oauth
claude_code_extra_check(error) == error.message \cap {"expired", "oauth"} # {}

\* _find_oauth_provider taking the first provider whose prefix matches.
find_oauth_provider_prefix_only(model, error) ==
    LET matches == {k \in DOMAIN OAUTH_PROVIDERS :
                       startswith(model, OAUTH_PROVIDERS[k].provider_prefix)}
    IN  IF error.error_type # "authentication" \/ matches = {}
        THEN None
        ELSE OAUTH_PROVIDERS[Min(matches)].provider_prefix[1]

\* _find_oauth_provider: the name of the first provider whose prefix starts
\* the model and whose extra check, if it has one, passes; None when the
\* error is no authentication error or no provider is left.
find_oauth_provider(model, error) ==
    LET matches == {k \in DOMAIN OAUTH_PROVIDERS :
                       /\ startswith(model, OAUTH_PROVIDERS[k].provider_prefix)
                       /\ OAUTH_PROVIDERS[k].extra_error_check =>
                             claude_code_extra_check(error)}
    IN  IF error.error_type # "authentication" \/ matches = {}
        THEN None
        ELSE OAUTH_PROVIDERS[Min(matches)].provider_prefix[1]

\* The model strings, as tokens.
OAuthModels ==
    { << "claude-code", ":", "sonnet" >>,
      << "qwen", ":", "coder" >>,
      << "openai", ":", "gpt" >>,
      << "claude-code" >> }

\* The AIError values: the error type and the words of the message.
OAuthErrors ==
    [ error_type : {"authentication", "rate_limit"},
      message : {{}, {"expired"}, {"oauth"}, {"invalid"}} ]

\* What authenticate does: it returns True or False, or raises.
AuthOutcomes == {"True", "False", "AIError", "ConfigError", "OSError", "ValueError"}

\* What the retried workflow does: it returns an exit code, or raises.
RetryOutcomes ==
    {[raised |-> None, code |-> c] : c \in {0, 1, 2}}
    \cup {[raised |-> "AIError", code |-> -1]}

OAuthInit ==
    /\ SMIdle
    /\ DeriveIdle
    /\ WaitIdle
    /\ MergeIdle
    /\ MonitorIdle
    /\ ReviewIdle
    /\ PlatformIdle
    /\ BranchIdle
    /\ ResolveIdle
    /\ EnsureIdle
    /\ o_pc = "start"
    /\ o_error \in OAuthErrors
    /\ o_model \in OAuthModels
    /\ o_retry_given \in BOOLEAN
    /\ o_auth \in AuthOutcomes
    /\ o_retry \in RetryOutcomes
    /\ o_provider = None
    /\ o_auth_calls = 0
    /\ o_retry_calls = 0
    /\ o_result = -1
    /\ o_raised = None

\* handle_oauth_error up to the call of _attempt_reauth_and_retry.
HandleOAuthError ==
    /\ o_pc = "start"
    /\ o_provider' = find_oauth_provider(o_model, o_error)
    /\ IF o_provider' = None \/ ~o_retry_given
       THEN o_pc' = "done" /\ o_result' = 1
       ELSE o_pc' = "reauth" /\ UNCHANGED o_result
    /\ UNCHANGED << o_error, o_model, o_retry_given, o_auth, o_retry, o_auth_calls,
                    o_retry_calls, o_raised >>

\* _attempt_reauth_and_retry: provider.authenticate(quiet) inside the try.
Authenticate ==
    /\ o_pc = "reauth"
    /\ o_auth_calls' = o_auth_calls + 1
    /\ CASE o_auth = "True" ->
              o_pc' = "retry" /\ UNCHANGED << o_result, o_raised >>
         [] o_auth \in {"False", "AIError", "ConfigError", "OSError"} ->
              o_pc' = "done" /\ o_result' = 1 /\ UNCHANGED o_raised
         [] OTHER ->
              o_pc' = "done" /\ o_raised' = o_auth /\ UNCHANGED o_result
    /\ UNCHANGED << o_error, o_model, o_retry_given, o_auth, o_retry, o_provider,
                    o_retry_calls >>

\* _attempt_reauth_and_retry: return retry_workflow(), inside the same try.
RetryWorkflow ==
    /\ o_pc = "retry"
    /\ o_retry_calls' = o_retry_calls + 1
    /\ o_result' = IF o_retry.raised = None THEN o_retry.code ELSE 1
    /\ o_pc' = "done"
    /\ UNCHANGED << o_error, o_model, o_retry_given, o_auth, o_retry, o_provider,
                    o_auth_calls, o_raised >>

OAuthNext ==
    (HandleOAuthError \/ Authenticate \/ RetryWorkflow)
    /\ UNCHANGED << smVars, deriveVars, waitVars, mergeVars, monitorVars, reviewVars,
                    platformVars, branchVars, resolveVars, ensureVars >>

SpecOAuth == OAuthInit /\ [][OAuthNext]_vars

(***************************************************************************)
(* conflict_resolver.py: resolve_pr_conflicts and ConflictResolver         *)
(***************************************************************************)
\* The unmerged paths a stopped rebase or merge leaves in the work tree.
UnmergedLists == { << "a.py" >>, << "a.py", "b.py" >> }

\* How a git rebase or git merge command ends: it succeeds, it refuses to
\* start, it stops on conflicts with unmerged paths, or (rebase only) it
\* stops while applying a commit without leaving unmerged paths.
CommandOutcomes(strategy) ==
    IF strategy = "rebase" THEN {"ok", "refused", "conflicts", "stopped"}
    ELSE {"ok", "refused", "conflicts"}

\* ConflictResolver.detect_local_conflicts: the paths git diff
\* --diff-filter=U lists, the empty list when the command fails.
detect_local_conflicts(unmerged, diff_fails) ==
    IF diff_fails THEN << >> ELSE unmerged

\* What git <op> --abort leaves in progress: the operation is ended when
\* one of that kind is in progress and the command does not fail.
after_abort(op, in_progress, abort_fails) ==
    IF abort_fails THEN in_progress
    ELSE IF op = "rebase" /\ in_progress = "rebase" THEN "none"
    ELSE IF op = "merge" /\ in_progress \in {"merge", "trial_merge"} THEN "none"
    ELSE in_progress

ResolveInit ==
    /\ SMIdle
    /\ DeriveIdle
    /\ WaitIdle
    /\ MergeIdle
    /\ MonitorIdle
    /\ ReviewIdle
    /\ PlatformIdle
    /\ BranchIdle
    /\ OAuthIdle
    /\ EnsureIdle
    /\ cr_pc = "start"
    /\ cr_auto \in BOOLEAN
    /\ cr_strategy \in {"rebase", "merge", "squash"}
    /\ cr_found = << >>
    /\ cr_in_progress = "none"
    /\ cr_cmd = None
    /\ cr_success = FALSE
    /\ cr_remaining = << >>
    /\ cr_aborts = 0
    /\ cr_pushes = 0
    /\ cr_result = None

\* resolve_pr_conflicts up to the test of pr_info.has_conflicts.
ResolveGetPr ==
    /\ cr_pc = "start"
    /\ \E conflicts \in BOOLEAN :
         IF ~conflicts
         THEN /\ cr_result' = "True"
              /\ cr_pc' = "done"
         ELSE /\ cr_pc' = "detect"
              /\ UNCHANGED cr_result
    /\ UNCHANGED << cr_auto, cr_strategy, cr_found, cr_in_progress, cr_cmd, cr_success,
                    cr_remaining, cr_aborts, cr_pushes >>

\* detect_conflicts_with_base (a trial merge --no-commit that is aborted)
\* and the test of its result in resolve_pr_conflicts.
DetectConflictsWithBase ==
    /\ cr_pc = "detect"
    /\ \E trial \in {"ok", "conflicts", "refused"}, unmerged \in UnmergedLists,
          diff_fails \in BOOLEAN, first_abort_fails \in BOOLEAN, abort_fails \in BOOLEAN :
         LET started == IF trial = "refused" THEN "none" ELSE "trial_merge"
             in_try == trial = "ok" /\ ~first_abort_fails
             found == IF in_try THEN << >>
                      ELSE detect_local_conflicts(
                              IF trial = "conflicts" THEN unmerged ELSE << >>, diff_fails)
         IN  /\ (trial # "ok" => ~first_abort_fails)
             /\ (trial = "refused" => abort_fails)
             /\ cr_found' = found
             /\ cr_in_progress' =
                   IF in_try THEN "none" ELSE after_abort("merge", started, abort_fails)
             /\ IF found = << >>
                THEN /\ cr_result' = "False"
                     /\ cr_pc' = "done"
                ELSE /\ cr_pc' = IF cr_auto THEN "attempt" ELSE "interactive"
                     /\ UNCHANGED cr_result
    /\ UNCHANGED << cr_auto, cr_strategy, cr_cmd, cr_success, cr_remaining, cr_aborts,
                    cr_pushes >>

\* interactive_resolution up to its call of attempt_auto_resolution.
InteractiveResolution ==
    /\ cr_pc = "interactive"
    /\ \E choice \in {"rebase", "merge", "manual", "abort"} :
         IF choice \in {"abort", "manual"}
         THEN /\ cr_result' = "False"
              /\ cr_pc' = "done"
              /\ UNCHANGED cr_strategy
         ELSE /\ cr_strategy' = choice
              /\ cr_pc' = "attempt"
              /\ UNCHANGED cr_result
    /\ UNCHANGED << cr_auto, cr_found, cr_in_progress, cr_cmd, cr_success, cr_remaining,
                    cr_aborts, cr_pushes >>

\* attempt_auto_resolution with _attempt_rebase and _attempt_merge.
AttemptAutoResolution ==
    /\ cr_pc = "attempt"
    /\ \E fetch_fails \in BOOLEAN :
         IF fetch_fails \/ cr_strategy \notin {"rebase", "merge"}
         THEN /\ cr_success' = FALSE
              /\ cr_remaining' = << >>
              /\ UNCHANGED << cr_cmd, cr_in_progress, cr_aborts >>
         ELSE \E outcome \in CommandOutcomes(cr_strategy), unmerged \in UnmergedLists,
                 diff_fails \in BOOLEAN, abort_fails \in BOOLEAN :
                LET started == IF outcome \in {"conflicts", "stopped"}
                               THEN cr_strategy ELSE cr_in_progress
                    listed == IF outcome = "conflicts" THEN unmerged
                              ELSE IF outcome = "refused" /\ cr_in_progress = "trial_merge"
                              THEN cr_found
                              ELSE << >>
                    conflicts == detect_local_conflicts(listed, diff_fails)
                IN  /\ (cr_in_progress # "none" => outcome = "refused")
                    /\ cr_cmd' = outcome
                    /\ IF outcome = "ok"
                       THEN /\ cr_success' = TRUE
                            /\ cr_remaining' = << >>
                            /\ UNCHANGED << cr_in_progress, cr_aborts >>
                       ELSE /\ cr_success' = FALSE
                            /\ cr_remaining' = conflicts
                            /\ IF conflicts # << >>
                               THEN /\ cr_aborts' = cr_aborts + 1
                                    /\ cr_in_progress' =
                                          after_abort(cr_strategy, started, abort_fails)
                               ELSE /\ cr_in_progress' = started
                                    /\ UNCHANGED cr_aborts
    /\ cr_pc' = "after"
    /\ UNCHANGED << cr_auto, cr_strategy, cr_found, cr_pushes, cr_result >>

\* What follows attempt_auto_resolution: push_resolution in
\* resolve_pr_conflicts, the offer of manual resolution in
\* interactive_resolution.
AfterAttempt ==
    /\ cr_pc = "after"
    /\ IF cr_auto
       THEN IF cr_success
            THEN \E push_fails \in BOOLEAN :
                    /\ cr_pushes' = IF push_fails THEN cr_pushes ELSE cr_pushes + 1
                    /\ cr_result' = IF push_fails THEN "False" ELSE "True"
            ELSE /\ cr_result' = "False"
                 /\ UNCHANGED cr_pushes
       ELSE /\ UNCHANGED cr_pushes
            /\ IF ~cr_success /\ cr_remaining # << >>
               THEN \E resolve_manually \in BOOLEAN, guided \in {"True", "False"} :
                       cr_result' = IF resolve_manually THEN guided ELSE "False"
               ELSE cr_result' = IF cr_success THEN "True" ELSE "False"
    /\ cr_pc' = "done"
    /\ UNCHANGED << cr_auto, cr_strategy, cr_found, cr_in_progress, cr_cmd, cr_success,
                    cr_remaining, cr_aborts >>

ResolveNext ==
    (ResolveGetPr \/ DetectConflictsWithBase \/ InteractiveResolution
        \/ AttemptAutoResolution \/ AfterAttempt)
    /\ UNCHANGED << smVars, deriveVars, waitVars, mergeVars, monitorVars, reviewVars,
                    platformVars, branchVars, oauthVars, ensureVars >>

SpecResolve == ResolveInit /\ [][ResolveNext]_vars

(***************************************************************************)
(* review_manager.py: ensure_pr_approved                                   *)
(***************************************************************************)
\* The review lists a get_reviews query may return while ensure_pr_approved
\* runs: approvals by two users and a request for changes.
EnsureSnapshots ==
    SeqUpTo({ ReviewInfo("alice", "APPROVED"), ReviewInfo("erin", "APPROVED"),
              ReviewInfo("bob", "CHANGES_REQUESTED") }, MaxReviews)

\* ReviewManager.get_reviewers_with_changes_requested on the reviews its
\* get_reviews query returned.
get_reviewers_with_changes_requested(reviews) ==
    LET sel == SelectSeq(reviews, requests_changes)
    IN  [i \in DOMAIN sel |-> sel[i].user]

\* ReviewRequiredError(required, approved, pr_number, changes_requested_by)
ReviewRequiredError(required, approved, users) ==
    [required |-> required, approved |-> approved, changes_requested_by |-> users]

EnsureInit ==
    /\ SMIdle
    /\ DeriveIdle
    /\ WaitIdle
    /\ MergeIdle
    /\ MonitorIdle
    /\ ReviewIdle
    /\ PlatformIdle
    /\ BranchIdle
    /\ OAuthIdle
    /\ ResolveIdle
    /\ e_pc = "start"
    /\ e_required \in 1..MaxRequired
    /\ e_first = << >>
    /\ e_second = << >>
    /\ e_third = << >>
    /\ e_result = None
    /\ e_error = NoReviewError

\* approved, message = manager.check_approval_status(pr_number, required_approvals)
EnsureCheckApproval ==
    /\ e_pc = "start"
    /\ \E reviews \in EnsureSnapshots :
         /\ e_first' = reviews
         /\ IF check_approval_status(reviews, e_required).approved
            THEN /\ e_result' = "True"
                 /\ e_pc' = "done"
            ELSE /\ e_pc' = "second"
                 /\ UNCHANGED e_result
    /\ UNCHANGED << e_required, e_second, e_third, e_error >>

\* reviews = manager.get_reviews(pr_number) and its summary.
EnsureGetReviews ==
    /\ e_pc = "second"
    /\ \E reviews \in EnsureSnapshots :
         LET summary == summarize_reviews(reviews) IN
         /\ e_second' = reviews
         /\ IF summary.changes_requested > 0
            THEN /\ e_pc' = "third"
                 /\ UNCHANGED << e_result, e_error >>
            ELSE /\ e_error' = ReviewRequiredError(e_required, summary.approved, << >>)
                 /\ e_result' = "ReviewRequiredError"
                 /\ e_pc' = "done"
    /\ UNCHANGED << e_required, e_first, e_third >>

\* requesters = manager.get_reviewers_with_changes_requested(pr_number) and
\* the error raised with them.
EnsureGetRequesters ==
    /\ e_pc = "third"
    /\ \E reviews \in EnsureSnapshots :
         /\ e_third' = reviews
         /\ e_error' = ReviewRequiredError(e_required, summarize_reviews(e_second).approved,
                                           get_reviewers_with_changes_requested(reviews))
    /\ e_result' = "ReviewRequiredError"
    /\ e_pc' = "done"
    /\ UNCHANGED << e_required, e_first, e_second >>

EnsureNext ==
    (EnsureCheckApproval \/ EnsureGetReviews \/ EnsureGetRequesters)
    /\ UNCHANGED << smVars, deriveVars, waitVars, mergeVars, monitorVars, reviewVars,
                    platformVars, branchVars, oauthVars, resolveVars >>

SpecEnsure == EnsureInit /\ [][EnsureNext]_vars

\* The state the fixed priority order assigns to p, read off the fields of p.
FirstMatch(p) ==
    LET merged == p.state = "merged"
        notOpen == p.state # "open"
        draft == p.draft \/ p.state = "draft"
        conflicts == p.mergeable_state \in {"conflicting", "dirty"}
        anyPending == \E i \in DOMAIN p.checks : p.checks[i].status # "completed"
        anyFailed ==
            \E i \in DOMAIN p.checks :
                p.checks[i].conclusion \in {"failure", "timed_out", "cancelled"}
        anyChanges == \E i \in DOMAIN p.reviews : p.reviews[i].state = "CHANGES_REQUESTED"
        anyApproval == \E i \in DOMAIN p.reviews : p.reviews[i].state = "APPROVED"
        approved == anyApproval /\ ~anyChanges
        blocked == notOpen \/ draft \/ conflicts \/ anyPending \/ anyFailed \/ anyChanges
        allSucceeded ==
            \A i \in DOMAIN p.checks :
                p.checks[i].status = "completed" => p.checks[i].conclusion = "success"
        canMerge ==
            /\ ~notOpen /\ ~draft /\ p.mergeable # "False"
            /\ ~conflicts /\ allSucceeded /\ ~anyPending
    IN  CASE merged -> "MERGED"
          [] ~merged /\ notOpen -> "CLOSED"
          [] ~notOpen /\ draft -> "DRAFT"
          [] ~notOpen /\ ~draft /\ conflicts -> "CONFLICT"
          [] ~notOpen /\ ~draft /\ ~conflicts /\ anyPending -> "CHECKS_RUNNING"
          [] ~notOpen /\ ~draft /\ ~conflicts /\ ~anyPending /\ anyFailed -> "CHECKS_FAILED"
          [] OTHER ->
                IF anyChanges THEN "CHANGES_REQUESTED"
                ELSE IF p.reviews # << >> /\ ~approved THEN "REVIEW_REQUIRED"
                ELSE IF blocked THEN "BLOCKED"
                ELSE IF canMerge THEN "READY_TO_MERGE"
                ELSE IF allSucceeded THEN "CHECKS_PASSED"
                ELSE "OPEN"

\* C1: the derived state is the state of the first matching condition in the
\* order merged, not open, draft, conflicts, pending check, failed check,
\* changes requested, reviews not approved, blocking reasons, can_merge,
\* checks passed, else OPEN; it is a function of the facts alone.
C1_PriorityOrder == derived # None => derived = FirstMatch(facts)

\* An open, non-draft PR with a pending check and conflicts derived CONFLICT.
C1_Witness ==
    /\ derived = "CONFLICT"
    /\ facts.state = "open" /\ ~facts.draft
    /\ \E i \in DOMAIN facts.checks : facts.checks[i].status # "completed"

\* C2 (as claimed): a draft PR, as the adapters produce it, that is neither
\* merged nor closed and has a failed check derives DRAFT.
C2_DraftBeforeChecksFailed ==
    ( /\ derived # None
      /\ from_adapter(facts)
      /\ facts.draft \/ facts.state = "draft"
      /\ facts.state \notin {"merged", "closed"}
      /\ \E i \in DOMAIN facts.checks :
            facts.checks[i].conclusion \in {"failure", "timed_out", "cancelled"} )
    => derived = "DRAFT"

(***************************************************************************)
(* Properties of the state machine (SpecSM).                               *)
(***************************************************************************)

\* The (state, trigger) pairs of the static table.
TablePairs ==
    {<< VALID_TRANSITIONS[i].from_state, VALID_TRANSITIONS[i].trigger >> :
        i \in DOMAIN VALID_TRANSITIONS}

TableTriples ==
    {<< VALID_TRANSITIONS[i].from_state, VALID_TRANSITIONS[i].trigger,
        VALID_TRANSITIONS[i].to_state >> : i \in DOMAIN VALID_TRANSITIONS}

Range(f) == {f[i] : i \in DOMAIN f}

\* C3: transition(t) from S succeeds iff the table holds an entry (S, t); the
\* entry is unique and gives the successor; this is exactly when
\* can_transition(t) holds and t is among get_valid_triggers(); a failing
\* transition raises and leaves current_state and history unchanged.
C3_TransitionIffTabled ==
    /\ [](\A g \in Triggers :
            LET tabled == << current_state, g >> \in TablePairs IN
            /\ Cardinality({e \in TableTriples : e[1] = current_state /\ e[2] = g}) <= 1
            /\ tabled <=> can_transition(current_state, g)
            /\ tabled <=> g \in Range(get_valid_triggers(current_state)))
    /\ [][\A g \in Triggers : (call_result' # "set" /\ transition(g)) =>
            LET tabled == << current_state, g >> \in TablePairs IN
            /\ tabled <=> call_result' = "returned"
            /\ tabled => << current_state, g, current_state' >> \in TableTriples
            /\ ~tabled => /\ call_result' = "ValueError"
                          /\ current_state' = current_state
                          /\ history' = history
         ]_vars

\* A transition failed after the machine had already moved.
C3_Witness ==
    /\ call_result = "ValueError"
    /\ n_transitions > 0
    /\ current_state \notin {"CREATED", "MERGED", "CLOSED"}

\* C4: MERGED and CLOSED are terminal: no valid trigger, every transition
\* fails and leaves the state; is_terminal holds in exactly these two states,
\* and they are the only states without a valid trigger.
C4_TerminalStates ==
    /\ [](/\ is_terminal(current_state) <=> current_state \in {"MERGED", "CLOSED"}
          /\ get_valid_triggers(current_state) = << >>
                <=> current_state \in {"MERGED", "CLOSED"})
    /\ [][\A g \in Triggers :
            (current_state \in {"MERGED", "CLOSED"} /\ transition(g)) =>
                /\ call_result' = "ValueError"
                /\ current_state' = current_state]_vars

\* A transition was attempted in a terminal state.
C4_Witness ==
    /\ current_state \in {"MERGED", "CLOSED"}
    /\ call_result = "ValueError"

\* C10: history is append-only: a successful transition appends exactly
\* (state before, trigger) and moves to the target of a table entry, a failed
\* one appends nothing, and the length of history is the number of successful
\* transitions plus the number of set_state calls that changed the state.
C10_HistoryAppendOnly ==
    /\ [](Len(history) = n_transitions + n_direct_sets)
    /\ [][/\ Len(history') >= Len(history)
          /\ SubSeq(history', 1, Len(history)) = history
          /\ \A g \in Triggers : transition(g) =>
                IF call_result' = "returned"
                THEN /\ history' = Append(history, << current_state, g >>)
                     /\ << current_state, g, current_state' >> \in TableTriples
                ELSE history' = history
         ]_vars

\* Both kinds of call have extended the history.
C10_Witness ==
    /\ Len(history) >= 2
    /\ n_transitions >= 1
    /\ n_direct_sets >= 1

(***************************************************************************)
(* Properties of wait_for_pr_checks (SpecWait).                            *)
(***************************************************************************)
flaky_failures(cs) == categorize_failures(cs)[1]

blocking_failures(cs) == categorize_failures(cs)[2]

\* wait_for_checks has returned a complete check list with failures.
FailuresReturned ==
    /\ wpc = "returned"
    /\ ~passed
    /\ \A i \in DOMAIN checks : checks[i].status = "completed"

\* C6 (as claimed): a blocking failure makes wait_for_pr_checks raise
\* ChecksFailedError without a retry and without waiting again; retry is
\* offered only when every failed check is flaky and the session is
\* interactive, and is then the default.
C6_BlockingFailureFails ==
    [][FailuresReturned =>
        /\ blocking_failures(checks) # << >> =>
              /\ w_outcome' = "ChecksFailedError"
              /\ n_retries' = n_retries
              /\ depth' = depth
        /\ "retry" \in prompt'.choices =>
              /\ blocking_failures(checks) = << >>
              /\ w_interactive
              /\ prompt'.default = "retry"
      ]_vars

\* C6 (amended): with a blocking failure wait_for_pr_checks never returns
\* True and "ignore" is not offered; a non-interactive session raises
\* ChecksFailedError without retry or further wait, an interactive one is
\* offered abort (the default), retry and wait.  "ignore" is offered only
\* when every failed check is flaky and the session is interactive, and then
\* retry is the default; retry_checks runs only on the user's choice "retry".
C6_BlockingFailureNeverIgnored ==
    [][FailuresReturned =>
        /\ blocking_failures(checks) # << >> =>
              /\ w_outcome' # "True"
              /\ "ignore" \notin prompt'.choices
              /\ w_interactive =>
                    /\ prompt'.choices = {"abort", "retry", "wait"}
                    /\ prompt'.default = "abort"
              /\ ~w_interactive =>
                    /\ w_outcome' = "ChecksFailedError"
                    /\ n_retries' = n_retries
                    /\ depth' = depth
        /\ "ignore" \in prompt'.choices =>
              /\ blocking_failures(checks) = << >>
              /\ flaky_failures(checks) # << >>
              /\ w_interactive
              /\ prompt'.default = "retry"
        /\ "retry" \in prompt'.choices => w_interactive
        /\ n_retries' # n_retries =>
              /\ action' = "retry"
              /\ "retry" \in prompt'.choices
      ]_vars

\* A blocking failure was answered with retry, and the push was made.
C6_Witness ==
    /\ wpc = "loop"
    /\ prompt.choices = {"abort", "retry", "wait"}
    /\ action = "retry"
    /\ n_pushes > 0
    /\ n_polls = 0

\* C7: when the deadline passed and the final check list has a pending check,
\* wait_for_pr_checks raises ChecksPendingError carrying the pending names,
\* also when the list has failed checks; ChecksFailedError is raised only
\* from a check list without a pending check.
C7_TimeoutRaisesPending ==
    [][/\ ( /\ wpc = "returned"
            /\ \E i \in DOMAIN checks : checks[i].status # "completed" ) =>
              /\ deadline_passed
              /\ w_outcome' = "ChecksPendingError"
              /\ err_names' # << >>
              /\ \A n \in Range(err_names') :
                    \E i \in DOMAIN checks :
                        checks[i].name = n /\ checks[i].status # "completed"
              /\ \A i \in DOMAIN checks :
                    checks[i].status # "completed" => checks[i].name \in Range(err_names')
       /\ ( w_outcome # "ChecksFailedError" /\ w_outcome' = "ChecksFailedError" ) =>
              \A i \in DOMAIN checks : checks[i].status = "completed"
      ]_vars

\* The deadline passed with a pending and a failed check in the final list.
C7_Witness ==
    /\ w_outcome = "ChecksPendingError"
    /\ deadline_passed
    /\ \E i \in DOMAIN checks : is_failed(checks[i])
    /\ \E i \in DOMAIN checks : checks[i].status # "completed"

(***************************************************************************)
(* Properties of merge_pr_workflow (SpecMerge).                            *)
(***************************************************************************)

\* C5: when the first derived state is MERGED the workflow returns 0; when
\* it is CLOSED, DRAFT, CONFLICT without auto-resolve, CHECKS_FAILED without
\* waiting, or CHANGES_REQUESTED with the confirmation declined, it returns a
\* non-zero code; in all these runs neither the LLM nor merge_pr is called.
C5_ShortCircuit ==
    LET fails ==
            \/ first_state \in {"CLOSED", "DRAFT"}
            \/ first_state = "CONFLICT" /\ ~args.auto_resolve_conflicts
            \/ first_state = "CHECKS_FAILED" /\ ~args.wait_for_checks
            \/ first_state = "CHANGES_REQUESTED" /\ anyway = "no"
    IN  /\ (first_state = "MERGED" \/ fails) => llm_calls = 0 /\ merge_calls = 0
        /\ pc = "done" =>
              /\ first_state = "MERGED" => exit_code = 0 /\ raised = None
              /\ fails => exit_code > 0 /\ raised = None

\* The "Merge anyway?" confirmation was declined.
C5_Witness ==
    /\ pc = "done"
    /\ first_state = "CHANGES_REQUESTED"
    /\ anyway = "no"
    /\ exit_code = 1

\* C8 (as claimed): every run ends by returning an exit code; no error of a
\* collaborator leaves the workflow.
C8_NoErrorLeavesWorkflow ==
    pc = "done" => raised = None /\ exit_code \in 0..4

\* C9 (as claimed): the CHANGES_REQUESTED decision, the generation of the
\* merge message and the merge use a state derived from the facts fetched
\* last.
C9_StateFromLatestFacts ==
    pc \in {"changes", "generate", "confirm"} =>
        /\ state_from = n_fetches
        /\ wf_state = determine_state(pr_info)

\* ---------------------------------------------------------------------
\* C11: set_state(s) bypasses the table: from every current state, the
\* terminal ones included, it makes current_state = s; it appends one
\* (previous state, "direct_set") entry iff s differs from the current
\* state, so a second set_state(s) right after the first changes neither
\* the state nor the history.
C11_SetStateIdempotent ==
    [][\A s \in PRLifecycleState :
          (call_result' = "set" /\ set_state(s)) =>
             /\ current_state' = s
             /\ IF s # current_state
                THEN history' = Append(history, << current_state, "direct_set" >>)
                ELSE history' = history
             /\ (call_result = "set" /\ s = current_state) =>
                   UNCHANGED << current_state, history >>
      ]_vars

\* set_state has left a terminal state, and the entry records it.
C11_Witness ==
    /\ call_result = "set"
    /\ Len(history) = 2
    /\ history[2] = << "MERGED", "direct_set" >>
    /\ current_state = "OPEN"

\* ---------------------------------------------------------------------
\* The names of the check lists whose lower-cased form contains one of
\* e2e, integration, visual, flaky, unstable.
FlakyNamed == {name_e2e, name_integ}

FailedIndexes(cs) ==
    {i \in DOMAIN cs : cs[i].conclusion \in {"failure", "timed_out", "cancelled"}}

\* C12: categorize_failures returns (flaky, blocking) whose union is the
\* failed checks of the list and whose intersection is empty; a failed check
\* is in flaky iff its lower-cased name contains a flaky pattern; a check
\* that is not failed is in neither part.
C12_CategorizePartition ==
    \A k \in DOMAIN m_splits :
        LET flaky == Range(m_splits[k][1])
            blocking == Range(m_splits[k][2])
            failed == {m_checks[i] : i \in FailedIndexes(m_checks)}
        IN  /\ flaky \cup blocking = failed
            /\ flaky \cap blocking = {}
            /\ \A c \in failed : c \in flaky <=> c.name \in FlakyNamed
            /\ \A i \in DOMAIN m_checks \ FailedIndexes(m_checks) :
                  m_checks[i] \notin failed => m_checks[i] \notin flaky \cup blocking

\* A list with a failed flaky check written in upper case and a failed check
\* whose name only starts like a pattern has been categorised.
C12_Witness ==
    /\ m_splits # << >>
    /\ \E c \in Range(m_splits[1][1]) : c.name = name_e2e
    /\ \E c \in Range(m_splits[1][2]) : c.name = name_unstab

\* C13: summarize_checks counts total = length, passed = conclusion success,
\* failed = conclusion failure, timed_out or cancelled, pending = status
\* not completed, skipped = conclusion skipped or neutral; all_passed iff
\* failed = 0 and pending = 0, so it is true for the empty list; every call
\* on the same list gives the same counts.
C13_SummaryCounts ==
    \A k \in DOMAIN m_summaries :
        LET summary == m_summaries[k][1]
            count(S) == Cardinality({i \in DOMAIN m_checks : S[i]})
        IN  /\ summary.total = Len(m_checks)
            /\ summary.passed =
                  count([i \in DOMAIN m_checks |-> m_checks[i].conclusion = "success"])
            /\ summary.failed = Cardinality(FailedIndexes(m_checks))
            /\ summary.pending =
                  count([i \in DOMAIN m_checks |-> m_checks[i].status # "completed"])
            /\ summary.skipped =
                  count([i \in DOMAIN m_checks |->
                            m_checks[i].conclusion \in {"skipped", "neutral"}])
            /\ m_summaries[k][2] <=> (summary.failed = 0 /\ summary.pending = 0)
            /\ m_checks = << >> => m_summaries[k][2]
            /\ m_summaries[k] = m_summaries[1]

\* The empty list has been summarised twice, and all_passed was true.
C13_Witness ==
    /\ m_checks = << >>
    /\ Len(m_summaries) = 2
    /\ m_summaries[2][2]

\* ---------------------------------------------------------------------
ReviewIndexes(st) == {i \in DOMAIN r_reviews : r_reviews[i].state = st}

\* C14: check_approval_status returns approved = true iff no review requests
\* changes and the number of approved reviews is at least required_approvals;
\* with a review requesting changes the message names the requesting users;
\* otherwise a shortfall is reported as required_approvals minus the number
\* of approved reviews.
C14_ApprovalStatus ==
    \A k \in DOMAIN r_status :
        LET result == r_status[k]
            n_approved == Cardinality(ReviewIndexes("APPROVED"))
            changes == ReviewIndexes("CHANGES_REQUESTED")
        IN  /\ result.approved <=> (changes = {} /\ n_approved >= r_required)
            /\ changes # {} =>
                  /\ ~result.approved
                  /\ result.message = "Changes requested by"
                  /\ Range(result.users) = {r_reviews[i].user : i \in changes}
                  /\ Len(result.users) = Cardinality(changes)
            /\ (changes = {} /\ n_approved < r_required) =>
                  /\ result.message = "Need more approval(s)"
                  /\ result.number = r_required - n_approved

\* Enough approvals, and still not approved because a review requests changes.
C14_Witness ==
    /\ r_status # << >>
    /\ r_required = 1
    /\ Cardinality(ReviewIndexes("APPROVED")) = 1
    /\ ReviewIndexes("CHANGES_REQUESTED") # {}
    /\ ~r_status[1].approved

\* ---------------------------------------------------------------------
\* How a finished wait_for_pr_checks ended, by the branches of its code.
EndedByPassed == w_outcome = "True" /\ passed

EndedByIgnore == w_outcome = "True" /\ ~passed /\ action = "ignore"

EndedByTimeout ==
    /\ w_outcome = "ChecksPendingError"
    /\ deadline_passed
    /\ pending_names(checks) # << >>

EndedByFailedPush ==
    /\ w_outcome = "ChecksFailedError"
    /\ action = "retry"
    /\ n_retries = n_pushes + 1

EndedByAbort == w_outcome = "ChecksFailedError" /\ action = "abort"

\* Failed checks were handled with retry and a successful push, or with wait.
RetriedOrWaited ==
    /\ wpc = "returned"
    /\ wait_verdict(passed, checks) = "failed"
    /\ \/ action' = "retry" /\ n_pushes' = n_pushes + 1
       \/ action' = "wait"

\* C15 (as stated): an interactive wait_for_pr_checks completes only when a
\* wait ends with all checks passed, with a timeout on pending checks, with a
\* failed retry push, or with the user choosing abort or ignore.
C15_CompletesOnlyAsListed ==
    (wpc = "done" /\ w_interactive) =>
        \/ EndedByPassed
        \/ EndedByTimeout
        \/ EndedByFailedPush
        \/ EndedByAbort
        \/ EndedByIgnore

\* C15 (amended): there is no retry limit: whenever failed checks are
\* answered with retry and the push succeeds, or with wait, wait_for_pr_checks
\* calls itself again, at every recursion depth, with nothing kept from the
\* earlier waits but the arguments; it completes only when a wait ends with
\* all checks passed, with a timeout on pending checks, with a failed retry
\* push, with the action abort or ignore, or when get_checks raises.
C15_NoRetryLimit ==
    /\ [](wpc = "done" =>
            \/ EndedByPassed
            \/ EndedByTimeout
            \/ EndedByFailedPush
            \/ EndedByAbort
            \/ EndedByIgnore
            \/ w_outcome = "PlatformError")
    /\ [][RetriedOrWaited =>
            /\ wpc' = "loop"
            /\ depth' = depth + 1
            /\ elapsed' = 0
            /\ w_timeout' = w_timeout
            /\ w_interactive' = w_interactive
         ]_vars

\* Every wait so far ended with failed checks and was retried with a
\* successful push, and the checks have failed once more.
C15_Witness ==
    /\ wpc = "returned"
    /\ wait_verdict(passed, checks) = "failed"
    /\ depth = MaxRecursion
    /\ n_retries = depth
    /\ n_pushes = depth

\* ---------------------------------------------------------------------
\* C16: the error get_pr surfaces keeps the kind of the failure: an
\* authentication failure surfaces as PlatformAuthError and a generic or
\* network failure as PlatformError, neither as PRNotFoundError;
\* PRNotFoundError is surfaced only when the pull request does not exist.
C16_ErrorKindKept ==
    g_pc = "done" =>
        /\ g_cause = "auth" => g_error.kind = "PlatformAuthError"
        /\ g_cause = "network" => g_error.kind = "PlatformError"
        /\ g_error.kind = "PRNotFoundError" => g_cause = "not_found"

\* ---------------------------------------------------------------------
\* C17: branch_exists(branch, remote=True) returns True iff the remote head
\* listing succeeds and lists the branch: False when the git command fails,
\* and False when it succeeds with empty output; so is_branch_pushed is
\* False for a branch the remote does not have.
C17_RemoteBranchListed ==
    (b_pc = "done" /\ b_remote) =>
        /\ b_result = "True" <=> (~b_git_fails /\ b_output # << >>)
        /\ b_branch \notin b_heads => b_result = "False"

\* ---------------------------------------------------------------------
\* The error is an authentication error of a provider whose prefix starts
\* the model and whose extra check passes.
ProviderMatches ==
    /\ o_error.error_type = "authentication"
    /\ \/ o_model[1] = "qwen" /\ Len(o_model) > 1
       \/ /\ o_model[1] = "claude-code" /\ Len(o_model) > 1
          /\ ("expired" \in o_error.message \/ "oauth" \in o_error.message)

\* C18: the workflow is retried at most once, and only after authenticate
\* returned True, which is then followed by the retry; the exit code is then
\* the retry's. When authenticate returns False or raises AIError,
\* ConfigError or OSError the result is 1 and the retry is never invoked.
\* Authentication is attempted only for an authentication error of a
\* matching provider with a retry function given; in every other case
\* handle_oauth_error returns 1.
C18_RetryOnceAfterReauth ==
    /\ o_retry_calls <= 1
    /\ o_auth_calls <= 1
    /\ o_retry_calls = 1 => (o_auth_calls = 1 /\ o_auth = "True")
    /\ o_auth_calls = 1 => (ProviderMatches /\ o_retry_given)
    /\ o_pc = "done" =>
          /\ (o_auth_calls = 1 /\ o_auth = "True") => o_retry_calls = 1
          /\ (o_retry_calls = 1 /\ o_retry.raised = None) => o_result = o_retry.code
          /\ (o_auth_calls = 1 /\ o_auth \in {"False", "AIError", "ConfigError", "OSError"}) =>
                (o_result = 1 /\ o_retry_calls = 0)
          /\ o_auth_calls = 0 => (o_result = 1 /\ o_retry_calls = 0)

\* After a successful re-authentication for Claude Code the retry ran and
\* its exit code 2 was returned.
C18_Witness ==
    /\ o_pc = "done"
    /\ o_provider = "claude-code"
    /\ o_auth_calls = 1
    /\ o_retry_calls = 1
    /\ o_result = 2

\* ---------------------------------------------------------------------
\* C19: without the yes flag, merge_pr is not invoked on a pull request
\* whose most recently fetched facts hold a changes-requested review unless
\* the user answered yes to "Merge anyway?" in the run.
C19_NoMergeOverChangesRequested ==
    (merge_calls > 0 /\ ~args.yes /\ SelectSeq(pr_info.reviews, requests_changes) # << >>)
        => anyway = "yes"

\* C20: merge_pr is not invoked when the most recently derived lifecycle
\* state is MERGED, CLOSED, DRAFT or CONFLICT, also when that state was
\* derived after a successful conflict resolution.
C20_NoMergeFromBlockedState ==
    merge_calls > 0 => wf_state \notin {"MERGED", "CLOSED", "DRAFT", "CONFLICT"}

\* ---------------------------------------------------------------------
\* C21: merge_pr is invoked at most once in a run, only after the LLM call
\* of the run returned a message and, unless yes is set, after the user
\* confirmed the merge; with no model (exit 2), a failed LLM call (exit 4),
\* message_only (exit 0) or a declined confirmation (exit 0) it is not
\* invoked.
C21_MergeOnceAfterMessage ==
    /\ merge_calls <= 1
    /\ merge_calls = 1 =>
          /\ llm_calls = 1
          /\ exit_code \in {0, 1}
          /\ ~args.message_only
          /\ ~args.yes => confirmed = "yes"
    /\ exit_code \in {2, 4} => merge_calls = 0
    /\ (pc = "done" /\ llm_calls = 0) => merge_calls = 0
    /\ confirmed = "no" => (merge_calls = 0 /\ exit_code = 0)
    /\ (pc = "done" /\ args.message_only /\ llm_calls = 1 /\ raised = None) =>
          (merge_calls = 0 /\ exit_code \in {0, 4})

\* The user confirmed and the merge was made, after the message.
C21_Witness ==
    /\ pc = "done"
    /\ ~args.yes
    /\ confirmed = "yes"
    /\ llm_calls = 1
    /\ merge_calls = 1
    /\ exit_code = 0

\* ---------------------------------------------------------------------
\* C22: wait_for_pr_checks returns True only if the check list fetched last
\* has no pending and no failed check, or the action was ignore, which is
\* offered only when every failed check is flaky; the verdict
\* wait_for_checks returns is the one of the check list it returns.
C22_TrueOnlyWhenPassedOrIgnored ==
    /\ (wpc = "done" /\ w_outcome = "True") =>
          \/ \A i \in DOMAIN checks :
                /\ checks[i].status = "completed"
                /\ checks[i].conclusion \notin {"failure", "timed_out", "cancelled"}
          \/ /\ action = "ignore"
             /\ "ignore" \in prompt.choices
             /\ FailedIndexes(checks) # {}
             /\ \A i \in FailedIndexes(checks) : checks[i].name \in FlakyNamed
             /\ \A i \in DOMAIN checks : checks[i].status = "completed"
    /\ wpc = "returned" =>
          (passed <=> \A i \in DOMAIN checks :
                         /\ checks[i].status = "completed"
                         /\ checks[i].conclusion \notin {"failure", "timed_out", "cancelled"})

\* True was returned over a failed flaky check the user ignored.
C22_Witness ==
    /\ wpc = "done"
    /\ w_outcome = "True"
    /\ action = "ignore"
    /\ FailedIndexes(checks) # {}

\* ---------------------------------------------------------------------
\* ceil(t / p)
CeilDiv(t, p) == (t + p - 1) \div p

NoPendingIn(cs) == \A i \in DOMAIN cs : cs[i].status = "completed"

\* C23: with timeout T and poll interval P, the clock advancing by at least
\* P per sleep, one wait_for_checks makes at most ceil(T/P) + 1 get_checks
\* queries; a loop poll starts only while elapsed < T; after the deadline
\* exactly one more query is made and its result returned; a poll whose
\* snapshot has no pending check returns at once.
C23_PollingBounded ==
    /\ [](n_polls <= CeilDiv(w_timeout, PollInterval) + 1)
    /\ []((wpc = "returned" /\ ~deadline_passed) => NoPendingIn(checks))
    /\ [][(wpc = "loop" /\ n_polls' = n_polls + 1) =>
            /\ deadline_passed' <=> elapsed >= w_timeout
            /\ deadline_passed' => wpc' = "returned"
            /\ NoPendingIn(checks') => (wpc' = "returned" /\ elapsed' = elapsed)
            /\ (~deadline_passed' /\ ~NoPendingIn(checks')) =>
                  (wpc' = "loop" /\ elapsed' >= elapsed + PollInterval)
         ]_vars

\* The longest wait: every loop poll found a pending check and the final
\* query was the last of ceil(T/P) + 1.
C23_Witness ==
    /\ wpc = "returned"
    /\ deadline_passed
    /\ w_timeout = MaxTimeout
    /\ n_polls = CeilDiv(MaxTimeout, PollInterval) + 1

\* ---------------------------------------------------------------------
\* C24: the merge workflow passes interactive = not yes; a non-interactive
\* wait_for_pr_checks never prompts, never runs retry_checks and never calls
\* itself: a returned check list without a pending check and with a failed
\* one makes it raise ChecksFailedError at once.
C24_NonInteractiveFailsFast ==
    /\ pc = "waiting" => (w_interactive <=> ~args.yes)
    /\ (pc = "waiting" /\ ~w_interactive) =>
          /\ ~prompt.ask
          /\ n_retries = 0
          /\ n_pushes = 0
          /\ depth = 0
          /\ (wpc = "done" /\ NoPendingIn(checks) /\ FailedIndexes(checks) # {}
                /\ w_outcome # "PlatformError") =>
                (w_outcome = "ChecksFailedError" /\ action = "abort")

\* With yes set the wait ended with ChecksFailedError on its first result.
C24_Witness ==
    /\ pc = "waiting"
    /\ args.yes
    /\ wpc = "done"
    /\ w_outcome = "ChecksFailedError"
    /\ FailedIndexes(checks) # {}
    /\ depth = 0

\* The facts for which determine_state evaluates get_blocking_reasons: none
\* of the eight earlier tests returned.
ReachesBlockingStep(p) ==
    /\ ~is_merged(p) /\ is_open(p) /\ ~is_draft(p) /\ ~has_conflicts(p)
    /\ ~checks_pending(p) /\ ~checks_failed(p)
    /\ SelectSeq(p.reviews, requests_changes) = << >>
    /\ ~(~pr_is_approved(p) /\ p.reviews # << >>)

\* The eleven states determine_state can return.
DerivableStates ==
    { "MERGED", "CLOSED", "DRAFT", "CONFLICT", "CHECKS_RUNNING", "CHECKS_FAILED",
      "CHANGES_REQUESTED", "REVIEW_REQUIRED", "READY_TO_MERGE", "CHECKS_PASSED",
      "OPEN" }

\* C25: determine_state never returns CREATED, RESOLUTION or BLOCKED: when
\* its evaluation reaches the blocking-reasons step the list of reasons is
\* empty, and the derived state is one of the other eleven states.
C25_NeverBlocked ==
    /\ ReachesBlockingStep(facts) => get_blocking_reasons(facts) = << >>
    /\ derived # None =>
          /\ derived \notin {"CREATED", "RESOLUTION", "BLOCKED"}
          /\ derived \in DerivableStates

\* An open PR that GitHub reports as not mergeable ("blocked"), with a
\* skipped check and an approval, passed the blocking-reasons step.
C25_Witness ==
    /\ derived \in {"OPEN", "CHECKS_PASSED", "READY_TO_MERGE"}
    /\ ReachesBlockingStep(facts)
    /\ facts.mergeable = "False"
    /\ facts.mergeable_state = "blocked"
    /\ \E i \in DOMAIN facts.checks : facts.checks[i].conclusion = "skipped"
    /\ \E i \in DOMAIN facts.reviews : facts.reviews[i].state = "APPROVED"

\* ---------------------------------------------------------------------
\* An open, non-draft, conflict-free, mergeable PR without reviews that
\* carries the checks cs.
MergeablePR(cs) ==
    [ number |-> 1, state |-> "open", draft |-> FALSE, mergeable |-> "True",
      mergeable_state |-> "clean", checks |-> cs, reviews |-> << >> ]

\* C26: whenever wait_for_checks reports all passed, PRInfo.checks_passed
\* holds for a PR carrying the same checks, and determine_state on an open,
\* non-draft, conflict-free, mergeable PR with those checks and no reviews
\* is READY_TO_MERGE.
C26_PassingNotionsAgree ==
    (wpc = "returned" /\ passed) =>
        /\ checks_passed(MergeablePR(checks))
        /\ determine_state(MergeablePR(checks)) = "READY_TO_MERGE"

\* ---------------------------------------------------------------------
\* The states one table entry leads to from s.
Successors(s) ==
    { VALID_TRANSITIONS[i].to_state :
        i \in {j \in DOMAIN VALID_TRANSITIONS : VALID_TRANSITIONS[j].from_state = s} }

\* The states reachable from the states of S by at most n table entries.
RECURSIVE ReachWithin(_, _)
ReachWithin(S, n) ==
    LET T == S \cup UNION {Successors(s) : s \in S} IN
    IF n = 0 \/ T = S THEN S ELSE ReachWithin(T, n - 1)

\* The states reachable from s in the transition graph.
ReachableFrom(s) == ReachWithin({s}, Cardinality(PRLifecycleState))

\* C27: every lifecycle state is reachable from CREATED in the transition
\* graph and MERGED is reachable from every non-terminal state; in a run of
\* transition calls only, a machine in MERGED has (READY_TO_MERGE, merge)
\* as its last history entry, MERGED is entered only from READY_TO_MERGE by
\* merge, and no transition leads back to CREATED.
C27_GraphReachability ==
    /\ [](/\ Cardinality(PRLifecycleState) = 14
          /\ ReachableFrom("CREATED") = PRLifecycleState
          /\ \A s \in PRLifecycleState :
                /\ ~is_terminal(s) => "MERGED" \in ReachableFrom(s)
                /\ "CREATED" \notin Successors(s)
                /\ "MERGED" \in Successors(s) => s = "READY_TO_MERGE"
          /\ ~is_terminal(current_state) => "MERGED" \in ReachableFrom(current_state)
          /\ current_state = "MERGED" =>
                /\ history # << >>
                /\ history[Len(history)] = << "READY_TO_MERGE", "merge" >>
          /\ history # << >> => current_state # "CREATED")
    /\ [][current_state' # current_state =>
             /\ current_state' # "CREATED"
             /\ current_state' = "MERGED" =>
                   /\ current_state = "READY_TO_MERGE"
                   /\ history' = Append(history, << "READY_TO_MERGE", "merge" >>)]_vars

\* MERGED was reached from CREATED by five transition calls.
C27_Witness ==
    /\ current_state = "MERGED"
    /\ n_direct_sets = 0
    /\ n_transitions = 5
    /\ history[1][1] = "CREATED"
    /\ history[Len(history)] = << "READY_TO_MERGE", "merge" >>

\* ---------------------------------------------------------------------
\* C28: when the rebase or merge command of an auto-resolution attempt
\* failed, the call ends with no rebase or merge of the attempt in progress
\* and with nothing pushed; a push is made only after the command succeeded.
C28_FailedAttemptAborted ==
    /\ (cr_pc \in {"after", "done"} /\ cr_cmd \in {"refused", "conflicts", "stopped"}) =>
          /\ cr_in_progress \notin {"rebase", "merge"}
          /\ cr_pushes = 0
    /\ cr_pushes > 0 => cr_cmd = "ok"

\* ---------------------------------------------------------------------
\* C29: every ReviewRequiredError ensure_pr_approved raises carries a
\* non-empty changes-requested user list or an approved count strictly below
\* the required count, and it is not raised when the reviews it reports on
\* satisfy the quorum.
C29_VerdictOfOneSnapshot ==
    e_result = "ReviewRequiredError" =>
        /\ \/ e_error.changes_requested_by # << >>
           \/ e_error.approved < e_error.required
        /\ ~check_approval_status(e_second, e_required).approved

\* ---------------------------------------------------------------------
\* C30: the machine from_pr_info builds from the fetched PRInfo reached its
\* derived state through set_state: when that state differs from CREATED the
\* history holds the entry (CREATED, "direct_set"), and pr_number is the
\* number of the PRInfo.
C30_InitialisedBySetState ==
    (n_fetches > 0 /\ state_from = n_fetches) =>
        LET machine == from_pr_info(pr_info) IN
        /\ machine.current_state = wf_state
        /\ machine.pr_number = pr_info.number
        /\ machine.current_state # "CREATED" =>
              /\ machine.history # << >>
              /\ << "CREATED", "direct_set" >> \in Range(machine.history)

====
